---- MODULE Spec2Model ----
(***************************************************************************)
(* wsbedrock: the JSON key-value store kept in scoreboard objectives (the  *)
(* in-game "direct" backend and the command-driven "remote" backend) and   *)
(* the polling message bridge built on it.                                 *)
(*                                                                         *)
(* Texts (scoreboard participant names, command output) are sequences of   *)
(* tokens.  The tokens of a generic payload {"k":<string>} are             *)
(*   "{"  the opening  {"k":        "}"  the closing brace                 *)
(*   "q"  a double quote            "b"  a backslash                       *)
(*   "a"  an ordinary letter        "E"  the word  error                   *)
(* so that the generic JSON value is the record [k |-> s] with s a sequence *)
(* over ValueChars.  A bridge message {"id":..,"timestamp":..,"data":..}   *)
(* is the text  "{" <id> <timestamp digit> <data> "}"  with one token for  *)
(* the id, one for the decimal digit of the timestamp and one for the data.*)
(***************************************************************************)
EXTENDS Integers, Sequences, FiniteSets, Bags, TLC

\* ------------------------------------------------------------------ bounds
\* longest string value the codec specification draws
MaxStrLen == 3
\* largest record id the store specification uses
MaxId == 2
\* most participants on the scoreboard, deferred writes included
MaxRows == 2
\* most writes waiting in system.run
MaxPending == 1
\* last value of the clock
MaxClock == 3
\* most sends the applications make
MaxSends == 3
\* most poll cycles counted after a send
MaxPolls == 6
\* lastProcessedIds keeps this many ids (the source keeps 1000)
maxProcessedIds == 1
\* most records on the scoreboard while store calls fail
MaxFaultyRows == 1
\* most callbacks the backend registers with onWorldAdd
MaxCallbacks == 2
\* deletedKeys is trimmed beyond this many keys (the source: 10000)
maxDeletedKeys == 2
\* and this many of the newest stay (the source: 5000)
keepDeletedKeys == 1
\* the longest JSON text the remote set passes on (the source: 32767)
maxJsonLength == 7
\* longest names drawn for the key encoder
MaxNameLen == 3
\* most lines of a list command's output drawn for the line parser
MaxLines == 4
\* longest objective names and most lines of "scoreboard objectives list"
MaxObjName == 2
MaxObjLines == 2
\* the sweep removes rows older than this (the source: one hour)
retention == 1

VARIABLES
    cv,      \* codec: the JSON value under test
    ctext,   \* codec: the text JSON.stringify produced for it
    cres,    \* codec: what the remote read path made of that text
    cpc      \* codec: "init" -> "serialized" -> "done"

VARIABLES
    board,       \* per table, the participants of its objective in host order
    objectives,  \* the tables whose objective exists
    pending,     \* writes handed to system.run and not yet run
    hostScoped,  \* whether the host takes "scoreboard players list * <t>"
    lastOp,      \* the last store call (or host step) and what it returned
    applied      \* per table and id: the payloads written since the id was free

VARIABLES
    now,           \* Date.now()
    worlds,        \* backend: utils.world.hasWorlds()
    bListening,    \* backend: "off", "waiting" (for a world) or "on"
    bProcessed,    \* backend: lastProcessedIds, in insertion order
    bDeletedKeys,  \* backend: deletedKeys, in insertion order
    bQueue,        \* backend: processingQueue
    bBusy,         \* backend: isProcessingData
    bRunning,      \* backend: the message its handlers are running for
    cUp,           \* client: the DataBridge instance was constructed
    cProcessed,    \* client: lastProcessedIds
    cBatch,        \* client: the items its poll cycle has still to process
    cBusy,         \* client: isProcessingData
    cRunning,      \* client: the message its handlers are running for
    calls,         \* the bag of handler invocations so far
    sentOk,        \* the messages for which send returned true
    bDropped,      \* backend: ids that left lastProcessedIds again
    nSends,        \* number of application sends so far
    firstPoll,     \* backend: the ids its first listing of the INBOX held twice
    tickDue,       \* a poll cycle began while a deferred write was waiting
    polls          \* backend poll cycles begun since the first send

VARIABLES
    bCallbacks,     \* backend: callbacks it registered with onWorldAdd
    bPollTimers,    \* backend: running setInterval timers of pollForData
    bCleanupTimers, \* backend: running timers of performAutomaticCleanup
    bStopped,       \* stopListening returned and startListening was not called since
    bCleaning       \* backend: isPerformingCleanup

VARIABLES
    dPc,     \* a verified delete: "idle", "try" (before an attempt) or "done"
    dKind,   \* which of the five functions runs it
    dKey,    \* the store id it deletes
    dRetry,  \* its retryCount
    dCalls   \* store delete calls it has issued

VARIABLES
    hName,   \* key encoder: the char codes of the name under test
    hKey     \* key encoder: the number nameToNumber returned for it

VARIABLES
    bHandled \* backend: the handler invocations, in the order they were made

VARIABLES
    pLines,   \* line parser: the output lines of the list command under test
    pRecords, \* line parser: the records the read made of them
    pParsed   \* line parser: which read parsed them, and for which id

VARIABLES
    bBatch,  \* backend: the items the latest poll cycle queued
    bTurns   \* backend: what processIncomingData did with each, in order

VARIABLES
    oLines,    \* objectives: the lines of the host's "scoreboard objectives list"
    oTable,    \* objectives: the table name getOrCreateObjective is called with
    oCommands  \* objectives: the commands getOrCreateObjective ran

VARIABLES
    bPolling,  \* backend: calls of pollForData that passed the guard and have not returned
    bSweeping  \* backend: calls of performAutomaticCleanup likewise

VARIABLES
    bHandlers, \* backend: dataHandlers, the handlers registered with onReceive
    cCycles    \* client without busy flag: the calls of pollForData under way

codecVars == <<cv, ctext, cres, cpc>>
retryVars == <<dPc, dKind, dKey, dRetry, dCalls>>
hashVars == <<hName, hKey>>
handlerVars == <<bHandled>>
parserVars == <<pLines, pRecords, pParsed>>
cycleVars == <<bBatch, bTurns>>
objVars == <<oLines, oTable, oCommands>>
flagVars == <<bPolling, bSweeping>>
regVars == <<bHandlers>>
overlapVars == <<cCycles>>
bridgeVars == <<now, worlds, bListening, bProcessed, bDeletedKeys, bQueue, bBusy, bRunning,
                cUp, cProcessed, cBatch, cBusy, cRunning, calls, sentOk, bDropped,
                nSends, firstPoll,
                bCallbacks, bPollTimers, bCleanupTimers, bStopped, bCleaning>>
lifeVars == <<bCallbacks, bPollTimers, bCleanupTimers, bStopped, bCleaning>>
timingVars == <<tickDue, polls>>
storeVars == <<board, objectives, pending, hostScoped, lastOp, applied>>
vars == <<cv, ctext, cres, cpc, board, objectives, pending, hostScoped, lastOp, applied,
          now, worlds, bListening, bProcessed, bDeletedKeys, bQueue, bBusy, bRunning,
          cUp, cProcessed, cBatch, cBusy, cRunning, calls, sentOk, bDropped,
          nSends, firstPoll, tickDue, polls,
          bCallbacks, bPollTimers, bCleanupTimers, bStopped, bCleaning,
          dPc, dKind, dKey, dRetry, dCalls, hName, hKey,
          bHandled, pLines, pRecords, pParsed, bBatch, bTurns,
          oLines, oTable, oCommands, bPolling, bSweeping,
          bHandlers, cCycles>>

\* ------------------------------------------------------------ RecordCodec
ValueChars == {"a", "q", "b", "E"}

RECURSIVE StringsUpTo(_)
StringsUpTo(n) ==
    IF n = 0 THEN {<<>>}
    ELSE LET S == StringsUpTo(n - 1)
         IN S \cup {Append(s, c) : s \in {t \in S : Len(t) = n - 1}, c \in ValueChars}

\* JSON.stringify of a string: a quote and a backslash are each preceded by a
\* backslash; the result is wrapped in quotes.
RECURSIVE EscapeString(_)
EscapeString(s) ==
    IF s = <<>> THEN <<>>
    ELSE (IF Head(s) \in {"q", "b"} THEN <<"b", Head(s)>> ELSE <<Head(s)>>)
         \o EscapeString(Tail(s))

\* the generic payload {"k": s}
Generic(s) == [k |-> s]

\* JSON.stringify(jsonData) of a generic payload
StringifyGeneric(v) == <<"{", "q">> \o EscapeString(v.k) \o <<"q", "}">>

\* text.replace(/\\"/g, '"'): every backslash-quote pair, scanned left to
\* right without overlap, becomes a quote.
RECURSIVE Unescape(_)
Unescape(t) ==
    IF Len(t) < 2 THEN t
    ELSE IF t[1] = "b" /\ t[2] = "q" THEN <<"q">> \o Unescape(SubSeq(t, 3, Len(t)))
    ELSE <<t[1]>> \o Unescape(Tail(t))

\* ------------------------------------------------------ CommunicationData
MsgIds == {"m1", "m2", "r1"}
\* an id the bridge does not accept
InvalidIds == {"undefined"}
MsgData == {"hi", "ack"}
Digits == <<"1", "2", "3", "4", "5", "6", "7", "8", "9">>
DigitOf(tok) == CHOOSE d \in DOMAIN Digits : Digits[d] = tok
DigitToks == {Digits[d] : d \in DOMAIN Digits}

CommunicationData(id, timestamp, data) == [id |-> id, timestamp |-> timestamp, data |-> data]
NoData == CommunicationData("", 0, "")

\* a queued message: {...item.data, _key: item.key}
Item(m, key) == [id |-> m.id, timestamp |-> m.timestamp, data |-> m.data, key |-> key]
DataOf(item) == CommunicationData(item.id, item.timestamp, item.data)
NoItem == Item(NoData, 0)

\* JSON.stringify of a CommunicationData
MsgStringify(m) == <<"{", m.id, Digits[m.timestamp], m.data, "}">>

IsMsgText(t) ==
    /\ Len(t) = 5
    /\ t[1] = "{" /\ t[5] = "}"
    /\ t[2] \in MsgIds \cup InvalidIds /\ t[3] \in DigitToks /\ t[4] \in MsgData

ParseMsg(t) == [ok |-> TRUE, val |-> CommunicationData(t[2], DigitOf(t[3]), t[4])]

\* charCodeAt over the characters of an id and of a one-digit timestamp
CharCodes(id) ==
    CASE id = "m1" -> <<109, 49>>
      [] id = "m2" -> <<109, 50>>
      [] id = "r1" -> <<114, 49>>
      [] id = "undefined" -> <<117, 110, 100, 101, 102, 105, 110, 101, 100>>
      [] id = "invalid" -> <<105, 110, 118, 97, 108, 105, 100>>
      [] OTHER -> <<>>
UnderscoreCode == 95
DigitCode(d) == 48 + d

\* hash = ((hash << 5) - hash) + char; hash = hash & hash : 31 * hash + char
\* in 32-bit two's complement, computed on the two 16-bit halves of hash.
HashStep(hash, char) ==
    LET lo == hash % 65536
        hi == (hash \div 65536) % 65536
        l == lo * 31 + char
        newlo == l % 65536
        newhi == (hi * 31 + (l \div 65536)) % 65536
    IN IF newhi >= 32768 THEN (newhi - 65536) * 65536 + newlo
       ELSE newhi * 65536 + newlo

RECURSIVE HashOf(_, _)
HashOf(codes, hash) ==
    IF codes = <<>> THEN hash ELSE HashOf(Tail(codes), HashStep(hash, Head(codes)))

MathAbs(x) == IF x < 0 THEN 0 - x ELSE x

\* generateDataKey: the hash of `${dataId}_${timestamp}`
generateDataKey(dataId, timestamp) ==
    MathAbs(HashOf(CharCodes(dataId) \o <<UnderscoreCode, DigitCode(timestamp)>>, 0))

\* JSON.stringify: of a CommunicationData, or of the generic payload
JSONstringify(v) == IF DOMAIN v = DOMAIN NoData THEN MsgStringify(v) ELSE StringifyGeneric(v)

ParseError == [ok |-> FALSE, val |-> Generic(<<>>)]

\* The body of a JSON string literal, after its opening quote: returns the
\* decoded string and the rest of the text after the closing quote, or ok =
\* FALSE when the text ends first or holds a backslash escape JSON lacks.
RECURSIVE StringBody(_, _)
StringBody(t, acc) ==
    IF t = <<>> THEN [ok |-> FALSE, val |-> acc, rest |-> <<>>]
    ELSE IF t[1] = "q" THEN [ok |-> TRUE, val |-> acc, rest |-> Tail(t)]
    ELSE IF t[1] = "b"
         THEN IF Len(t) >= 2 /\ t[2] \in {"q", "b"}
              THEN StringBody(SubSeq(t, 3, Len(t)), Append(acc, t[2]))
              ELSE [ok |-> FALSE, val |-> acc, rest |-> <<>>]
    ELSE IF t[1] \in ValueChars
         THEN StringBody(Tail(t), Append(acc, t[1]))
    ELSE [ok |-> FALSE, val |-> acc, rest |-> <<>>]

\* JSON.parse on the generic payload shape {"k":"..."}.
ParseGeneric(t) ==
    IF Len(t) >= 2 /\ t[1] = "{" /\ t[2] = "q"
    THEN LET r == StringBody(SubSeq(t, 3, Len(t)), <<>>)
         IN IF r.ok /\ r.rest = <<"}">> THEN [ok |-> TRUE, val |-> Generic(r.val)]
            ELSE ParseError
    ELSE ParseError

JSONparse(t) == IF IsMsgText(t) THEN ParseMsg(t) ELSE ParseGeneric(t)

\* The remote backend's read path for one participant name: unescape, then
\* JSON.parse.
DeserializeRemote(t) == JSONparse(Unescape(t))

\* ------------------------------------------------- the host scoreboard
\* One objective per table.  A participant is a row: its name is the stored
\* text and its score the record id; rows are kept in the order in which the
\* host enumerates the participants.
INBOX_TABLE == "data_bridge_inbox"      \* Client -> Backend
OUTBOX_TABLE == "data_bridge_outbox"    \* Backend -> Client
TableSeq == <<INBOX_TABLE, OUTBOX_TABLE>>
Tables == {INBOX_TABLE, OUTBOX_TABLE}
NoRows == [t \in Tables |-> <<>>]

Row(n, s) == [name |-> n, score |-> s]

Names(rows) == {rows[i].name : i \in DOMAIN rows}

RemoveAt(rows, i) == SubSeq(rows, 1, i - 1) \o SubSeq(rows, i + 1, Len(rows))

InsertAt(rows, i, r) == SubSeq(rows, 1, i - 1) \o <<r>> \o SubSeq(rows, i, Len(rows))

FirstWithScore_AnyScore(rows, id) == IF rows = <<>> THEN 0 ELSE 1

\* index of the first row with that score, 0 when there is none
FirstWithScore(rows, id) ==
    LET S == {i \in DOMAIN rows : rows[i].score = id}
    IN IF S = {} THEN 0 ELSE CHOOSE i \in S : \A j \in S : i <= j

IndexOfName(rows, n) ==
    LET S == {i \in DOMAIN rows : rows[i].name = n}
    IN IF S = {} THEN 0 ELSE CHOOSE i \in S : TRUE

\* setScore if it first dropped the participants that hold the score
setScore_Replace(rows, n, s, pos) ==
    SelectSeq(rows, LAMBDA r : r.score # s) \o <<[name |-> n, score |-> s]>>

\* ScoreboardObjective.setScore(participant, score): an existing participant
\* keeps its place and gets the new score, a new one is enumerated at a place
\* of the host's choosing (pos).
setScore(rows, n, s, pos) ==
    LET i == IndexOfName(rows, n)
    IN IF i > 0 THEN [rows EXCEPT ![i].score = s]
       ELSE InsertAt(rows, IF pos \in 1..(Len(rows) + 1) THEN pos ELSE Len(rows) + 1,
                     Row(n, s))

\* ScoreboardObjective.removeParticipant / "scoreboard players reset <name> <t>"
removeParticipant(rows, n) ==
    LET i == IndexOfName(rows, n)
    IN IF i > 0 THEN RemoveAt(rows, i) ELSE rows

\* ------------------------------------------ TableStoreDirect (in-game)
Result(ok, err, val) == [success |-> ok, error |-> err, data |-> val]

\* setJsonDirect: the write itself is deferred with system.run; the call
\* returns success at once.  The deferred write is what it hands to system.run.
D_setJsonDirect(t, id, jsonData) ==
    [res |-> Result(TRUE, "", jsonData),
     write |-> [table |-> t, name |-> JSONstringify(jsonData), score |-> id]]

D_getJsonDirect(rows, id) ==
    LET i == FirstWithScore(rows, id)
    IN IF i = 0 THEN Result(FALSE, "ID not found", <<>>)
       ELSE LET p == JSONparse(rows[i].name)
            IN IF p.ok THEN Result(TRUE, "", p.val)
               ELSE Result(FALSE, "Failed to parse JSON from participant name", <<>>)

\* deleteJsonDirect: the first participant whose score is id is removed.
D_deleteJsonDirect(rows, id) ==
    LET i == FirstWithScore(rows, id)
    IN IF i = 0 THEN [res |-> Result(FALSE, "not found", <<>>), rows |-> rows]
       ELSE [res |-> Result(TRUE, "", <<>>), rows |-> RemoveAt(rows, i)]

D_existsJsonDirect(rows, id) == FirstWithScore(rows, id) > 0

\* listJsonDirect: every participant whose name parses, in enumeration order.
RECURSIVE D_items(_)
D_items(rows) ==
    IF rows = <<>> THEN <<>>
    ELSE LET p == JSONparse(Head(rows).name)
         IN (IF p.ok THEN <<[id |-> Head(rows).score, data |-> p.val]>> ELSE <<>>)
            \o D_items(Tail(rows))

D_listJsonDirect(rows) == [success |-> TRUE, items |-> D_items(rows)]

D_clearJsonDirect(rows) == <<>>

\* ------------------------------------- the host's scoreboard commands
\* Output lines of "scoreboard players list": a header line names a
\* participant, the detail lines after it give its score in one objective
\* each ("- JSON Table: <t>: <score> (<t>)"); a legacy line carries name and
\* score together; an error line is the host's (localized) error message.
HeaderLine(n) == [kind |-> "header", p |-> n, table |-> "", score |-> 0]
DetailLine(t, s) == [kind |-> "detail", p |-> <<>>, table |-> t, score |-> s]
LegacyLine(n, s) == [kind |-> "legacy", p |-> n, table |-> "", score |-> s]
ErrorLine == [kind |-> "error", p |-> <<>>, table |-> "", score |-> 0]
\* a legacy line for a score in objective t: its text "<name>: <score>" does
\* not show t
LegacyLineOf(n, s, t) == [kind |-> "legacy", p |-> n, table |-> t, score |-> s]

RECURSIVE DistinctNames(_, _)
DistinctNames(rows, seen) ==
    IF rows = <<>> THEN <<>>
    ELSE IF Head(rows).name \in seen THEN DistinctNames(Tail(rows), seen)
    ELSE <<Head(rows).name>> \o DistinctNames(Tail(rows), seen \cup {Head(rows).name})

\* the tracked participants, each once, in the host's order
Participants(sb) == DistinctNames(sb[TableSeq[1]] \o sb[TableSeq[2]], {})

DetailsOf(sb, n, tables) ==
    LET D(i) == IF TableSeq[i] \in tables /\ IndexOfName(sb[TableSeq[i]], n) > 0
                THEN <<DetailLine(TableSeq[i],
                                  sb[TableSeq[i]][IndexOfName(sb[TableSeq[i]], n)].score)>>
                ELSE <<>>
    IN D(1) \o D(2)

RECURSIVE ListLines(_, _, _)
ListLines(sb, names, tables) ==
    IF names = <<>> THEN <<>>
    ELSE LET d == DetailsOf(sb, Head(names), tables)
         IN (IF d = <<>> THEN <<>> ELSE <<HeaderLine(Head(names))>> \o d)
            \o ListLines(sb, Tail(names), tables)

\* "scoreboard players list *"
HostListAll(sb) == ListLines(sb, Participants(sb), Tables)

\* the same listings on a host that answers in the legacy shape
RECURSIVE LegacyLines(_, _)
LegacyLines(rows, t) ==
    IF rows = <<>> THEN <<>>
    ELSE <<LegacyLineOf(Head(rows).name, Head(rows).score, t)>> \o LegacyLines(Tail(rows), t)

HostListAllLegacy(sb) ==
    LegacyLines(sb[TableSeq[1]], TableSeq[1]) \o LegacyLines(sb[TableSeq[2]], TableSeq[2])

HostListScopedLegacy(sb, t, scoped) ==
    IF scoped THEN LegacyLines(sb[t], t) ELSE <<ErrorLine>>

\* "scoreboard players list * <t>": a host that takes the scoped form lists
\* the objective's participants, one that does not answers a syntax error.
HostListScoped(sb, t, scoped) ==
    IF scoped THEN ListLines(sb, Participants(sb), {t}) ELSE <<ErrorLine>>

\* statusMessage.includes('エラー') / includes('構文エラー')
HasErrorKeyword(lines) == \E i \in DOMAIN lines : lines[i].kind = "error"

\* statusMessage.includes('error'): the word is part of a participant name
HasEnglishError(lines) ==
    \E i \in DOMAIN lines : \E j \in DOMAIN lines[i].p : lines[i].p[j] = "E"

\* ---------------------------------------- TableStoreRemote (commands)
\* processScoreboardLines: the state is the participant of the last header.
RECURSIVE processScoreboardLines(_, _, _, _)
processScoreboardLines(lines, targetId, targetTableName, currentParticipant) ==
    IF lines = <<>> THEN Result(FALSE, "ID not found", <<>>)
    ELSE LET line == Head(lines)
             parsed(p) == IF p.ok THEN Result(TRUE, "", p.val)
                          ELSE Result(FALSE, "Failed to parse JSON from participant name", <<>>)
             detailMatch == /\ line.kind = "detail"
                            /\ currentParticipant # <<>>
                            /\ line.table = targetTableName
                            /\ line.score = targetId
             legacyMatch == line.kind = "legacy" /\ line.score = targetId
         IN IF line.kind # "header" /\ (detailMatch \/ legacyMatch)
            THEN parsed(DeserializeRemote(IF detailMatch THEN currentParticipant
                                          ELSE line.p))
            ELSE processScoreboardLines(Tail(lines), targetId, targetTableName,
                                        IF line.kind = "header" THEN line.p
                                        ELSE currentParticipant)

\* getJsonDirect from the host's answers to its two list commands: the
\* scoped answer, or the unscoped one when the scoped answer is empty or an
\* error.
R_getLines(scopedOutput, allOutput, t, id) ==
    LET noData == [hasData |-> FALSE, lines |-> <<>>]
        output(listResult, altListResult) ==
            IF listResult = <<>> \/ HasErrorKeyword(listResult)
            THEN IF altListResult # <<>> /\ ~HasErrorKeyword(altListResult)
                 THEN [hasData |-> TRUE, lines |-> altListResult]
                 ELSE noData
            ELSE IF HasEnglishError(listResult) THEN noData
            ELSE [hasData |-> TRUE, lines |-> listResult]
        process(out) ==
            IF out.hasData THEN processScoreboardLines(out.lines, id, t, <<>>)
            ELSE Result(FALSE, "Failed to list scoreboard data or no data found", <<>>)
    IN process(output(scopedOutput, allOutput))

\* getJsonDirect after the objective was opened, on a host that answers
\* with header and detail lines.
R_getJsonDirect(sb, t, id, scoped) ==
    R_getLines(HostListScoped(sb, t, scoped), HostListAll(sb), t, id)

\* existsJsonDirect: success whatever getJsonDirect answered.
R_existsJsonDirect(sb, t, id, scoped) == R_getJsonDirect(sb, t, id, scoped).success

\* The effect of one "scoreboard players reset "<json>" <t>" command.  The
\* host removes the participant ("removed"), reports an error ("error") or
\* reports nothing wrong and removes nothing ("silent").
ResetOutcomes == {"removed", "error", "silent"}

HostReset(sb, t, n, outcome) ==
    IF outcome = "removed" THEN [sb EXCEPT ![t] = removeParticipant(@, n)] ELSE sb

\* "scoreboard players reset * <t>": every participant of the objective
HostResetAll(sb, t) == [sb EXCEPT ![t] = <<>>]

\* deleteJsonDirect after the objective was opened.
R_deleteJsonDirect(sb, t, id, scoped, o1, o2) ==
    LET deleteSuccess == o1 # "error"
        afterResetAll(b3, finalVerifyResult) ==
            IF ~finalVerifyResult.success
            THEN [res |-> Result(TRUE, "", <<>>), verified |-> TRUE, sb |-> b3]
            ELSE [res |-> Result(FALSE, "data persists after all deletion attempts", <<>>),
                  verified |-> FALSE, sb |-> b3]
        resetAll(b3) == afterResetAll(b3, R_getJsonDirect(b3, t, id, scoped))
        afterReset(b2, verifyResult) ==
            IF ~verifyResult.success
            THEN [res |-> Result(TRUE, "", <<>>), verified |-> TRUE, sb |-> b2]
            ELSE resetAll(HostResetAll(b2, t))
        verify(b2) == afterReset(b2, R_getJsonDirect(b2, t, id, scoped))
        second(b1, jsonString) ==
            verify(IF deleteSuccess THEN b1 ELSE HostReset(b1, t, jsonString, o2))
        first(jsonString) == second(HostReset(sb, t, jsonString, o1), jsonString)
        found(getResult) ==
            IF ~getResult.success
            THEN [res |-> Result(FALSE, "not found", <<>>), verified |-> FALSE, sb |-> sb]
            ELSE first(JSONstringify(getResult.data))
    IN found(R_getJsonDirect(sb, t, id, scoped))

\* the loop of listJsonDirect if it forgot the participant after one detail
RECURSIVE R_items_OneDetail(_, _, _)
R_items_OneDetail(lines, tableName, currentParticipant) ==
    IF lines = <<>> THEN <<>>
    ELSE LET line == Head(lines)
             item(n, p) == IF n # <<>> /\ n[1] = "{" /\ p.ok
                           THEN <<[id |-> line.score, data |-> p.val]>> ELSE <<>>
             parse(n) == item(n, DeserializeRemote(n))
             detail == line.kind = "detail" /\ currentParticipant # <<>>
             takes == \/ detail /\ line.table = tableName
                      \/ ~detail /\ line.kind = "legacy"
         IN (IF line.kind # "header" /\ takes
             THEN parse(IF detail THEN currentParticipant ELSE line.p)
             ELSE <<>>)
            \o R_items_OneDetail(Tail(lines), tableName,
                                 IF line.kind = "header" THEN line.p ELSE <<>>)

\* listJsonDirect after the objective was opened.
RECURSIVE R_items(_, _, _)
R_items(lines, tableName, currentParticipant) ==
    IF lines = <<>> THEN <<>>
    ELSE LET line == Head(lines)
             item(n, p) == IF n # <<>> /\ n[1] = "{" /\ p.ok
                           THEN <<[id |-> line.score, data |-> p.val]>> ELSE <<>>
             parse(n) == item(n, DeserializeRemote(n))
             detail == line.kind = "detail" /\ currentParticipant # <<>>
             takes == \/ detail /\ line.table = tableName
                      \/ ~detail /\ line.kind = "legacy"
         IN (IF line.kind # "header" /\ takes
             THEN parse(IF detail THEN currentParticipant ELSE line.p)
             ELSE <<>>)
            \o R_items(Tail(lines), tableName,
                       IF line.kind = "header" THEN line.p ELSE currentParticipant)

\* listJsonDirect from the host's answers to its two list commands
R_listLines(scopedOutput, allOutput, t) ==
    LET output(listResult, altListResult) ==
            IF listResult = <<>> \/ HasErrorKeyword(listResult)
            THEN (IF ~HasErrorKeyword(altListResult) THEN altListResult ELSE <<>>)
            ELSE listResult
        hasData(finalOutput) == /\ finalOutput # <<>>
                                /\ ~HasErrorKeyword(finalOutput)
                                /\ ~HasEnglishError(finalOutput)
        items(finalOutput) ==
            IF hasData(finalOutput) THEN R_items(finalOutput, t, <<>>) ELSE <<>>
    IN [success |-> TRUE, items |-> items(output(scopedOutput, allOutput))]

R_listJsonDirect(sb, t, scoped) ==
    R_listLines(HostListScoped(sb, t, scoped), HostListAll(sb), t)

\* listJsonDirect on a host that answers in the legacy shape
R_listJsonDirectLegacy(sb, t, scoped) ==
    R_listLines(HostListScopedLegacy(sb, t, scoped), HostListAllLegacy(sb), t)

\* setJsonDirect after the objective was opened: the host answers the
\* scriptevent command with a successCount (0, 1 or none) and a message.
R_isSuccess(successCount, msg) == successCount # 0 \/ msg = "ok"

R_setJsonDirect(t, id, jsonData, successCount, msg) ==
    IF ~R_isSuccess(successCount, msg) /\ successCount = 0
    THEN Result(FALSE, "Command failed", <<>>)
    ELSE Result(TRUE, "", jsonData)

\* The in-game executor of "jsondb set <table> <id> <json>": the text is
\* parsed and handed to the in-game store's set.
ExecutorSet(t, id, jsonStr) ==
    LET json == JSONparse(jsonStr)
    IN IF json.ok THEN <<D_setJsonDirect(t, id, json.val).write>> ELSE <<>>

\* ------------------------------------------------- store specification
Ids == 1..MaxId
Backends == {"direct", "remote"}
StoreValues == {Generic(<<"a">>), Generic(<<"a", "a">>)}
\* participant names that are no JSON text:  {error  and  a
CorruptNames == {<<"{", "E">>, <<"a">>}
HostResponses == {[successCount |-> 1, msg |-> "ok"],
                  [successCount |-> -1, msg |-> "ok"],
                  [successCount |-> 0, msg |-> "err"]}

NoOp == [op |-> "none", be |-> "", table |-> "", id |-> 0, success |-> FALSE,
         val |-> <<>>, found |-> FALSE, items |-> <<>>]
Op(o, be, t, id, ok, val, found, items) ==
    [op |-> o, be |-> be, table |-> t, id |-> id, success |-> ok,
     val |-> val, found |-> found, items |-> items]

Unknown == <<Generic(<<"?">>)>>
RowsWithScore(rows, id) == SelectSeq(rows, LAMBDA r : r.score = id)
TotalRows == Len(board[TableSeq[1]]) + Len(board[TableSeq[2]])

\* the history of a table's ids after its rows changed from old to new
Resync(a, old, new) ==
    [i \in Ids |-> IF RowsWithScore(old, i) = RowsWithScore(new, i) THEN a[i]
                   ELSE IF RowsWithScore(new, i) = <<>> THEN <<>> ELSE Unknown]

StoreGet(be, b, t, id) ==
    IF be = "direct" THEN D_getJsonDirect(b[t], id) ELSE R_getJsonDirect(b, t, id, hostScoped)
StoreExists(be, b, t, id) ==
    IF be = "direct" THEN D_existsJsonDirect(b[t], id)
    ELSE R_existsJsonDirect(b, t, id, hostScoped)
StoreList(be, b, t) ==
    IF be = "direct" THEN D_listJsonDirect(b[t]) ELSE R_listJsonDirect(b, t, hostScoped)

RetryIdle == dPc = "idle" /\ dKind = "" /\ dKey = 0 /\ dRetry = 0 /\ dCalls = 0
HashIdle == hName = <<>> /\ hKey = [hi |-> 0, lo |-> 0]
HandlerIdle == bHandled = <<>>
NoParse == [op |-> "none", id |-> 0]
ParserIdle == pLines = <<>> /\ pRecords = <<>> /\ pParsed = NoParse
CycleIdle == bBatch = <<>> /\ bTurns = <<>>
ObjIdle == oLines = <<>> /\ oTable = <<>> /\ oCommands = <<>>
FlagIdle == bPolling = 0 /\ bSweeping = 0
RegIdle == bHandlers = <<>>
OverlapIdle == cCycles = <<>>
CodecIdle == cv = Generic(<<>>) /\ ctext = <<>> /\ cres = ParseError /\ cpc = "off"

StoreIdle ==
    /\ board = NoRows
    /\ objectives = {}
    /\ pending = <<>>
    /\ lastOp = NoOp
    /\ applied = [t \in Tables |-> [i \in Ids |-> <<>>]]

BridgeIdle ==
    /\ now = 1 /\ bListening = "off"
    /\ bProcessed = <<>> /\ bDeletedKeys = <<>> /\ bQueue = <<>>
    /\ bBusy = FALSE /\ bRunning = NoItem
    /\ cUp = FALSE /\ cProcessed = {} /\ cBatch = <<>> /\ cBusy = FALSE /\ cRunning = NoItem
    /\ calls = EmptyBag /\ sentOk = {} /\ bDropped = {} /\ nSends = 0
    /\ firstPoll = [done |-> FALSE, twice |-> {}]
    /\ tickDue = FALSE /\ polls = 0
    /\ bCallbacks = 0 /\ bPollTimers = 0 /\ bCleanupTimers = 0
    /\ bStopped = FALSE /\ bCleaning = FALSE

StoreInit == StoreIdle /\ hostScoped \in BOOLEAN /\ CodecIdle /\ RetryIdle /\ HashIdle /\ HandlerIdle /\ ParserIdle /\ ObjIdle /\ FlagIdle /\ RegIdle /\ OverlapIdle /\ CycleIdle /\ BridgeIdle /\ worlds = TRUE

Set(be, t, id, v) ==
    /\ TotalRows + Len(pending) < MaxRows
    /\ Len(pending) < MaxPending
    /\ objectives' = objectives \cup {t}
    /\ IF be = "direct"
       THEN LET r == D_setJsonDirect(t, id, v)
            IN /\ pending' = Append(pending, r.write)
               /\ lastOp' = Op("set", be, t, id, r.res.success, v, FALSE, <<>>)
       ELSE \E h \in HostResponses :
            LET r == R_setJsonDirect(t, id, v, h.successCount, h.msg)
            IN /\ pending' = IF h.successCount # 0
                             THEN pending \o ExecutorSet(t, id, JSONstringify(v))
                             ELSE pending
               /\ lastOp' = Op("set", be, t, id, r.success, v, FALSE, <<>>)
    /\ UNCHANGED <<board, hostScoped, applied, codecVars, hashVars, retryVars, handlerVars, parserVars, objVars, regVars, overlapVars, flagVars, cycleVars, bridgeVars, timingVars>>

\* system.run runs the oldest deferred write.
RunWrite ==
    /\ pending # <<>>
    /\ LET w == Head(pending)
           old == board[w.table]
           v == JSONparse(w.name).val
       IN \E pos \in 1..(Len(old) + 1) :
          LET new == setScore(old, w.name, w.score, pos)
              free == RowsWithScore(old, w.score) = <<>>
              a == Resync(applied[w.table], old, new)
          IN /\ board' = [board EXCEPT ![w.table] = new]
             /\ applied' = IF w.score \notin Ids THEN applied
                           ELSE [applied EXCEPT ![w.table] =
                                [a EXCEPT ![w.score] =
                                    IF free THEN <<v>>
                                    ELSE IF applied[w.table][w.score] # Unknown
                                            /\ Len(applied[w.table][w.score]) < 2
                                    THEN Append(applied[w.table][w.score], v)
                                    ELSE Unknown]]
             /\ lastOp' = Op("run", "", "", 0, TRUE, <<>>, FALSE, <<>>)
    /\ pending' = Tail(pending)
    /\ UNCHANGED <<objectives, hostScoped, codecVars, hashVars, retryVars, handlerVars, parserVars, objVars, regVars, overlapVars, flagVars, cycleVars, bridgeVars>>

RunDeferred == RunWrite /\ UNCHANGED timingVars

Get(be, t, id) ==
    /\ objectives' = objectives \cup {t}
    /\ LET response(r) == Op("get", be, t, id, r.success, r.data, FALSE, <<>>)
       IN lastOp' = response(StoreGet(be, board, t, id))
    /\ UNCHANGED <<board, pending, hostScoped, applied, codecVars, hashVars, retryVars, handlerVars, parserVars, objVars, regVars, overlapVars, flagVars, cycleVars, bridgeVars, timingVars>>

Exists(be, t, id) ==
    /\ objectives' = objectives \cup {t}
    /\ lastOp' = Op("exists", be, t, id, TRUE, <<>>, StoreExists(be, board, t, id), <<>>)
    /\ UNCHANGED <<board, pending, hostScoped, applied, codecVars, hashVars, retryVars, handlerVars, parserVars, objVars, regVars, overlapVars, flagVars, cycleVars, bridgeVars, timingVars>>

List(be, t) ==
    /\ objectives' = objectives \cup {t}
    /\ LET response(r) == Op("list", be, t, 0, r.success, <<>>, FALSE, r.items)
       IN lastOp' = response(StoreList(be, board, t))
    /\ UNCHANGED <<board, pending, hostScoped, applied, codecVars, hashVars, retryVars, handlerVars, parserVars, objVars, regVars, overlapVars, flagVars, cycleVars, bridgeVars, timingVars>>

Delete(be, t, id) ==
    /\ objectives' = objectives \cup {t}
    /\ IF be = "direct"
       THEN LET r == D_deleteJsonDirect(board[t], id)
            IN /\ board' = [board EXCEPT ![t] = r.rows]
               /\ lastOp' = Op("delete", be, t, id, r.res.success, <<>>, FALSE, <<>>)
       ELSE \E o1, o2 \in ResetOutcomes :
            LET done(r) ==
                    /\ board' = r.sb
                    /\ lastOp' = Op("delete", be, t, id, r.res.success, <<>>, FALSE, <<>>)
            IN /\ (o1 # "error" => o2 = o1)
               /\ done(R_deleteJsonDirect(board, t, id, hostScoped, o1, o2))
    /\ applied' = [applied EXCEPT ![t] = Resync(@, board[t], board'[t])]
    /\ UNCHANGED <<pending, hostScoped, codecVars, hashVars, retryVars, handlerVars, parserVars, objVars, regVars, overlapVars, flagVars, cycleVars, bridgeVars, timingVars>>

Clear(be, t) ==
    /\ objectives' = objectives \cup {t}
    /\ board' = [board EXCEPT ![t] = D_clearJsonDirect(@)]
    /\ applied' = [applied EXCEPT ![t] = Resync(@, board[t], <<>>)]
    /\ lastOp' = Op("clear", be, t, 0, TRUE, <<>>, FALSE, <<>>)
    /\ UNCHANGED <<pending, hostScoped, codecVars, hashVars, retryVars, handlerVars, parserVars, objVars, regVars, overlapVars, flagVars, cycleVars, bridgeVars, timingVars>>

\* Another user of the scoreboard gives a participant that is no JSON text
\* a score in a table's objective.
InjectRow(t, n, id) ==
    /\ t \in objectives
    /\ TotalRows + Len(pending) < MaxRows
    /\ n \notin Names(board[t])
    /\ \E pos \in 1..(Len(board[t]) + 1) :
         board' = [board EXCEPT ![t] = setScore(@, n, id, pos)]
    /\ applied' = [applied EXCEPT ![t] = Resync(@, board[t], board'[t])]
    /\ lastOp' = Op("inject", "", t, id, TRUE, <<>>, FALSE, <<>>)
    /\ UNCHANGED <<objectives, pending, hostScoped, codecVars, hashVars, retryVars, handlerVars, parserVars, objVars, regVars, overlapVars, flagVars, cycleVars, bridgeVars, timingVars>>

StoreNext ==
    \/ \E be \in Backends, t \in Tables, id \in Ids, v \in StoreValues : Set(be, t, id, v)
    \/ RunDeferred
    \/ \E be \in Backends, t \in Tables, id \in Ids : Get(be, t, id)
    \/ \E be \in Backends, t \in Tables, id \in Ids : Exists(be, t, id)
    \/ \E be \in Backends, t \in Tables : List(be, t)
    \/ \E be \in Backends, t \in Tables, id \in Ids : Delete(be, t, id)
    \/ \E be \in Backends, t \in Tables : Clear(be, t)
    \/ \E t \in Tables, n \in CorruptNames, id \in Ids : InjectRow(t, n, id)

SpecStore == StoreInit /\ [][StoreNext]_vars

\* ------------------------------------------------- codec specification
CodecInit ==
    /\ cv \in {Generic(s) : s \in StringsUpTo(MaxStrLen)}
    /\ ctext = <<>>
    /\ cres = ParseError
    /\ cpc = "init"
    /\ StoreIdle /\ hostScoped = TRUE /\ BridgeIdle /\ RetryIdle /\ HashIdle /\ HandlerIdle /\ ParserIdle /\ ObjIdle /\ FlagIdle /\ RegIdle /\ OverlapIdle /\ CycleIdle /\ worlds = TRUE

CodecSerialize ==
    /\ cpc = "init"
    /\ ctext' = JSONstringify(cv)
    /\ cpc' = "serialized"
    /\ UNCHANGED <<cv, cres, storeVars, bridgeVars, timingVars, retryVars, handlerVars, parserVars, objVars, regVars, overlapVars, flagVars, cycleVars, hashVars>>

CodecDeserialize ==
    /\ cpc = "serialized"
    /\ cres' = DeserializeRemote(ctext)
    /\ cpc' = "done"
    /\ UNCHANGED <<cv, ctext, storeVars, bridgeVars, timingVars, retryVars, handlerVars, parserVars, objVars, regVars, overlapVars, flagVars, cycleVars, hashVars>>

CodecNext == CodecSerialize \/ CodecDeserialize

SpecCodec == CodecInit /\ [][CodecNext]_vars

\* ----------------------------------------------- listing specification
\* The remote list on a scoreboard that already holds records, on a host
\* that answers in the header/detail shape or in the legacy shape.
StoredRows == {Row(JSONstringify(v), id) : v \in StoreValues, id \in Ids}

RowSeqs ==
    {<<>>} \cup {<<r>> : r \in StoredRows}
           \cup {q \in StoredRows \X StoredRows : q[1].name # q[2].name}

ListingInit ==
    /\ board \in {b \in [Tables -> RowSeqs] :
                     Len(b[TableSeq[1]]) + Len(b[TableSeq[2]]) <= MaxRows}
    /\ objectives = {t \in Tables : board[t] # <<>>}
    /\ pending = <<>>
    /\ lastOp = NoOp
    /\ applied = [t \in Tables |-> [i \in Ids |->
                      IF RowsWithScore(board[t], i) = <<>> THEN <<>> ELSE Unknown]]
    /\ hostScoped \in BOOLEAN /\ CodecIdle /\ RetryIdle /\ HashIdle /\ HandlerIdle /\ ParserIdle /\ ObjIdle /\ FlagIdle /\ RegIdle /\ OverlapIdle /\ CycleIdle /\ BridgeIdle /\ worlds = TRUE

RemoteList(t, legacy) ==
    /\ objectives' = objectives \cup {t}
    /\ LET response(r) == Op("list", "remote", t, 0, r.success, <<>>, FALSE, r.items)
       IN lastOp' = response(IF legacy THEN R_listJsonDirectLegacy(board, t, hostScoped)
                             ELSE R_listJsonDirect(board, t, hostScoped))
    /\ UNCHANGED <<board, pending, hostScoped, applied, codecVars, hashVars, retryVars, handlerVars, parserVars, objVars, regVars, overlapVars, flagVars, cycleVars, bridgeVars, timingVars>>

ListingNext == \E t \in Tables, legacy \in BOOLEAN : RemoteList(t, legacy)

SpecListing == ListingInit /\ [][ListingNext]_vars

\* ------------------------------------------------ lookup specification
\* get on a scoreboard that already holds records: the in-game store, and
\* the remote store on a host that answers in either shape.
R_getJsonDirectLegacy(sb, t, id, scoped) ==
    R_getLines(HostListScopedLegacy(sb, t, scoped), HostListAllLegacy(sb), t, id)

RemoteGet(t, id, legacy) ==
    /\ objectives' = objectives \cup {t}
    /\ LET response(r) == Op("get", "remote", t, id, r.success, r.data, FALSE, <<>>)
       IN lastOp' = response(IF legacy THEN R_getJsonDirectLegacy(board, t, id, hostScoped)
                             ELSE R_getJsonDirect(board, t, id, hostScoped))
    /\ UNCHANGED <<board, pending, hostScoped, applied, codecVars, hashVars, retryVars,
                   handlerVars, parserVars, objVars, regVars, overlapVars, flagVars, cycleVars, bridgeVars, timingVars>>

LookupNext ==
    \/ \E t \in Tables, id \in Ids, legacy \in BOOLEAN : RemoteGet(t, id, legacy)
    \/ \E t \in Tables, id \in Ids : Get("direct", t, id)

SpecLookup == ListingInit /\ [][LookupNext]_vars

\* ------------------------------------------------ MessageBridge (backend)
Range(f) == {f[i] : i \in DOMAIN f}

Call(side, m) == [side |-> side, id |-> m.id, timestamp |-> m.timestamp]
Sent(to, m) == [to |-> to, id |-> m.id, timestamp |-> m.timestamp]

\* items.map(item => ({key: item.id, data: item.data}))
ToItems_None(items) == <<>>

RECURSIVE ToItems(_)
ToItems(items) ==
    IF items = <<>> THEN <<>>
    ELSE <<Item(Head(items).data, Head(items).id)>> \o ToItems(Tail(items))

\* .sort((a, b) => a.data.timestamp - b.data.timestamp): a stable sort
RECURSIVE InsertByTimestamp(_, _)
InsertByTimestamp(x, sorted) ==
    IF sorted = <<>> THEN <<x>>
    ELSE IF Head(sorted).timestamp <= x.timestamp
    THEN <<Head(sorted)>> \o InsertByTimestamp(x, Tail(sorted))
    ELSE <<x>> \o sorted

SortByTimestamp_Unsorted(items) == items

RECURSIVE SortByTimestamp(_)
SortByTimestamp(items) ==
    IF items = <<>> THEN <<>>
    ELSE InsertByTimestamp(items[Len(items)],
                           SortByTimestamp(SubSeq(items, 1, Len(items) - 1)))

ValidId_Any(id) == TRUE

\* !data.id || data.id === 'undefined' || typeof data.id !== 'string'
ValidId(id) == id # "" /\ id # "undefined"

\* markAsProcessed: the id is added; beyond maxProcessedIds the oldest go.
markAsProcessed_Forget(ids, dataId) == ids

markAsProcessed_KeepOldest(ids, dataId) ==
    SubSeq(Append(ids, dataId), 1, maxProcessedIds)

markAsProcessed(ids, dataId) ==
    LET added == IF dataId \in Range(ids) THEN ids ELSE Append(ids, dataId)
    IN IF ~ValidId(dataId) THEN ids
       ELSE IF Len(added) > maxProcessedIds
       THEN SubSeq(added, Len(added) - maxProcessedIds + 1, Len(added))
       ELSE added

B_send_NoWorldCheck(id, data, timestamp, h) ==
    LET communicationData == CommunicationData(id, timestamp, data)
        dataKey == generateDataKey(id, timestamp)
    IN [ok |-> R_setJsonDirect(OUTBOX_TABLE, dataKey, communicationData,
                               h.successCount, h.msg).success,
        msg |-> communicationData,
        writes |-> IF h.successCount # 0
                   THEN ExecutorSet(OUTBOX_TABLE, dataKey, JSONstringify(communicationData))
                   ELSE <<>>]

\* send(data, id) of the backend, given the host's answer h to its command:
\* whether it returns true, and the writes its command queues in the game.
B_send(id, data, timestamp, h) ==
    LET communicationData == CommunicationData(id, timestamp, data)
        dataKey == generateDataKey(id, timestamp)
        result == R_setJsonDirect(OUTBOX_TABLE, dataKey, communicationData,
                                  h.successCount, h.msg)
    IN [ok |-> worlds /\ result.success,
        msg |-> communicationData,
        writes |-> IF worlds /\ h.successCount # 0
                   THEN ExecutorSet(OUTBOX_TABLE, dataKey, JSONstringify(communicationData))
                   ELSE <<>>]

NoSend == [ok |-> FALSE, msg |-> NoData, writes |-> <<>>]

\* deletedKeys.add(dataKey): deletedKeys in insertion order
AddKey(keys, dataKey) == IF dataKey \in Range(keys) THEN keys ELSE Append(keys, dataKey)

\* maintainDeletedKeysSize: beyond maxDeletedKeys only the newest
\* keepDeletedKeys keys stay
maintainDeletedKeysSize(keys) ==
    IF Len(keys) > maxDeletedKeys
    THEN SubSeq(keys, Len(keys) - keepDeletedKeys + 1, Len(keys))
    ELSE keys

\* deleteProcessedDataSafely: a key already deleted is left alone; otherwise
\* the row is deleted from the INBOX and the key is remembered, also when no
\* attempt succeeded.  With a world, the first attempt ends in success or in
\* "not found"; without one every attempt fails.
deleteProcessedDataSafely(sb, keys, dataKey, o1, o2) ==
    IF dataKey \in Range(keys) THEN [sb |-> sb, keys |-> keys]
    ELSE IF ~worlds THEN [sb |-> sb, keys |-> AddKey(keys, dataKey)]
    ELSE [sb |-> R_deleteJsonDirect(sb, INBOX_TABLE, dataKey, hostScoped, o1, o2).sb,
          keys |-> maintainDeletedKeysSize(AddKey(keys, dataKey))]

\* deleteInvalidDataSafely: as deleteProcessedDataSafely does for a valid id
deleteInvalidDataSafely(sb, keys, dataKey, o1, o2) ==
    IF dataKey \in Range(keys) THEN [sb |-> sb, keys |-> keys]
    ELSE IF ~worlds THEN [sb |-> sb, keys |-> AddKey(keys, dataKey)]
    ELSE [sb |-> R_deleteJsonDirect(sb, INBOX_TABLE, dataKey, hostScoped, o1, o2).sb,
          keys |-> maintainDeletedKeysSize(AddKey(keys, dataKey))]

\* deleteInvalidData: the key is remembered only when the delete succeeded.
deleteInvalidData(sb, keys, dataKey, o1, o2) ==
    LET deleted(r) ==
            IF worlds /\ r.res.success
            THEN [sb |-> r.sb, keys |-> maintainDeletedKeysSize(AddKey(keys, dataKey))]
            ELSE [sb |-> sb, keys |-> keys]
    IN deleted(R_deleteJsonDirect(sb, INBOX_TABLE, dataKey, hostScoped, o1, o2))

\* the registered handler of the backend: it answers a "hi" with the reply r1
BHandler(m) == IF m.data = "hi" THEN CommunicationData("r1", 0, "ack") ELSE NoData

\* isListening and the two timers, as startListeningInternal and
\* stopListening see them
Listener == [on |-> bListening = "on", poll |-> bPollTimers, cleanup |-> bCleanupTimers]

startListeningInternal_Unguarded(l) ==
    [on |-> TRUE, poll |-> l.poll + 1, cleanup |-> l.cleanup + 1]

\* startListeningInternal: nothing when listening, else both timers start
startListeningInternal(l) ==
    IF l.on THEN l ELSE [on |-> TRUE, poll |-> l.poll + 1, cleanup |-> l.cleanup + 1]

\* stopListening: nothing when not listening, else the timers are cleared
stopListening(l) ==
    IF ~l.on THEN l
    ELSE [on |-> FALSE, poll |-> IF l.poll > 0 THEN l.poll - 1 ELSE 0,
          cleanup |-> IF l.cleanup > 0 THEN l.cleanup - 1 ELSE 0]

\* WorldUtil runs every registered callback, each calls startListeningInternal
RECURSIVE RunCallbacks(_, _)
RunCallbacks(l, n) == IF n = 0 THEN l ELSE RunCallbacks(startListeningInternal(l), n - 1)

SetListener(l, waiting) ==
    /\ bListening' = IF l.on THEN "on" ELSE IF waiting THEN "waiting" ELSE "off"
    /\ bPollTimers' = l.poll
    /\ bCleanupTimers' = l.cleanup

\* startListening: without a world it registers a callback with onWorldAdd
BStartListening ==
    /\ (bListening # "on" /\ ~worlds) => bCallbacks < MaxCallbacks
    /\ IF bListening = "on" THEN UNCHANGED <<bListening, bPollTimers, bCleanupTimers, bCallbacks>>
       ELSE IF ~worlds
       THEN /\ bCallbacks' = bCallbacks + 1
            /\ SetListener(Listener, TRUE)
       ELSE /\ SetListener(startListeningInternal(Listener), FALSE)
            /\ UNCHANGED bCallbacks
    /\ bStopped' = FALSE
    /\ UNCHANGED <<now, worlds, bProcessed, bDeletedKeys, bQueue, bBusy, bRunning,
                   cUp, cProcessed, cBatch, cBusy, cRunning, calls, sentOk, bDropped,
                   nSends, firstPoll, bCleaning, storeVars, codecVars, hashVars, retryVars, handlerVars, parserVars, objVars, regVars, overlapVars, flagVars, cycleVars, timingVars>>

\* the first startListening of the application
BStartOnce == bListening = "off" /\ BStartListening

BStopListening ==
    /\ SetListener(stopListening(Listener), bListening = "waiting")
    /\ bStopped' = TRUE
    /\ UNCHANGED <<now, worlds, bProcessed, bDeletedKeys, bQueue, bBusy, bRunning,
                   cUp, cProcessed, cBatch, cBusy, cRunning, calls, sentOk, bDropped,
                   nSends, firstPoll, bCallbacks, bCleaning, storeVars, codecVars, hashVars, retryVars, handlerVars, parserVars, objVars, regVars, overlapVars, flagVars, cycleVars,
                   timingVars>>

\* setPollingInterval: while listening, stopListening and then startListening
BSetPollingInterval ==
    /\ (bListening = "on" /\ ~worlds) => bCallbacks < MaxCallbacks
    /\ IF bListening # "on"
       THEN UNCHANGED <<bListening, bPollTimers, bCleanupTimers, bCallbacks, bStopped>>
       ELSE /\ bStopped' = FALSE
            /\ IF ~worlds
               THEN /\ bCallbacks' = bCallbacks + 1
                    /\ SetListener(stopListening(Listener), TRUE)
               ELSE /\ SetListener(startListeningInternal(stopListening(Listener)), FALSE)
                    /\ UNCHANGED bCallbacks
    /\ UNCHANGED <<now, worlds, bProcessed, bDeletedKeys, bQueue, bBusy, bRunning,
                   cUp, cProcessed, cBatch, cBusy, cRunning, calls, sentOk, bDropped,
                   nSends, firstPoll, bCleaning, storeVars, codecVars, hashVars, retryVars, handlerVars, parserVars, objVars, regVars, overlapVars, flagVars, cycleVars, timingVars>>

\* ServerEvent.WorldAdd: the world is there, the registered callbacks run
WorldAdd ==
    /\ ~worlds
    /\ worlds' = TRUE
    /\ SetListener(RunCallbacks(Listener, bCallbacks), bListening = "waiting")
    /\ UNCHANGED <<now, bProcessed, bDeletedKeys, bQueue, bBusy, bRunning,
                   cUp, cProcessed, cBatch, cBusy, cRunning, calls, sentOk, bDropped,
                   nSends, firstPoll, bCallbacks, bStopped, bCleaning, storeVars,
                   codecVars, hashVars, retryVars, handlerVars, parserVars, objVars, regVars, overlapVars, flagVars, cycleVars, timingVars>>

WorldRemove ==
    /\ worlds
    /\ worlds' = FALSE
    /\ UNCHANGED <<now, bListening, bProcessed, bDeletedKeys, bQueue, bBusy, bRunning,
                   cUp, cProcessed, cBatch, cBusy, cRunning, calls, sentOk, bDropped,
                   nSends, firstPoll, storeVars, codecVars, hashVars, retryVars, handlerVars, parserVars, objVars, regVars, overlapVars, flagVars, cycleVars, lifeVars, timingVars>>

\* Date.now(): the clock has not gone back since it was last read
Clock == {t \in {now, now + 1} : t <= MaxClock}

\* send of the backend, called by the application
BSend(id, data) ==
    /\ nSends < MaxSends
    /\ Len(pending) < MaxPending
    /\ \E h \in HostResponses, timestamp \in Clock :
         LET sent(snd) ==
                 /\ pending' = pending \o snd.writes
                 /\ sentOk' = IF snd.ok THEN sentOk \cup {Sent("c", snd.msg)} ELSE sentOk
         IN /\ now' = timestamp
            /\ sent(B_send(id, data, timestamp, h))
    /\ objectives' = IF worlds THEN objectives \cup {OUTBOX_TABLE} ELSE objectives
    /\ nSends' = nSends + 1
    /\ UNCHANGED <<worlds, bListening, bProcessed, bDeletedKeys, bQueue, bBusy,
                   bRunning, cUp, cProcessed, cBatch, cBusy, cRunning, calls, bDropped,
                   firstPoll, board, hostScoped, lastOp, applied, codecVars, hashVars, retryVars, handlerVars, parserVars, objVars, regVars, overlapVars, flagVars, cycleVars, lifeVars,
                   timingVars>>

\* the ids that two rows with different timestamps carry
TwiceIn(rows) ==
    {id \in MsgIds : \E i, j \in DOMAIN rows :
        /\ JSONparse(rows[i].name).ok /\ JSONparse(rows[j].name).ok
        /\ JSONparse(rows[i].name).val.id = id /\ JSONparse(rows[j].name).val.id = id
        /\ JSONparse(rows[i].name).val.timestamp # JSONparse(rows[j].name).val.timestamp}

\* this.isProcessingData || this.isPerformingCleanup, seen from the cycle
\* that tests it: its own flag and the flag of the other cycle
Busy_OwnFlag(own, other) == own

Busy(own, other) == own \/ other

\* pollForData: the listed items that are not deleted and not queued yet,
\* by timestamp
B_newData(sb, scoped, deletedKeys, processingQueue) ==
    LET result == R_listJsonDirect(sb, INBOX_TABLE, scoped)
        dataItems == SortByTimestamp(
                         SelectSeq(ToItems(result.items),
                                   LAMBDA it : it.key \notin Range(deletedKeys)))
    IN SelectSeq(dataItems,
                 LAMBDA it : \A i \in DOMAIN processingQueue : processingQueue[i].id # it.id)

\* pollForData up to the start of processDataQueue
BPoll ==
    /\ bPollTimers > 0
    /\ ~Busy(bBusy, bCleaning)
    /\ IF ~worlds THEN UNCHANGED <<objectives, bQueue, bBusy>>
       ELSE LET queue(newData) == /\ bQueue' = bQueue \o newData
                                  /\ bBusy' = (newData # <<>>)
            IN /\ objectives' = objectives \cup {INBOX_TABLE}
               /\ queue(B_newData(board, hostScoped, bDeletedKeys, bQueue))
    /\ firstPoll' = IF firstPoll.done \/ ~worlds THEN firstPoll
                    ELSE [done |-> TRUE, twice |-> TwiceIn(board[INBOX_TABLE])]
    /\ UNCHANGED <<now, worlds, bListening, bProcessed, bDeletedKeys, bRunning,
                   cUp, cProcessed, cBatch, cBusy, cRunning, calls, sentOk, bDropped,
                   nSends, board, pending, hostScoped, lastOp, applied, codecVars, hashVars, retryVars, handlerVars, parserVars, objVars, regVars, overlapVars, flagVars, lifeVars>>

BPollStart == BPoll /\ UNCHANGED <<timingVars, cycleVars>>

\* this.processingQueue.shift(): what stays queued
shift_Clear(queue) == <<>>

shift(queue) == Tail(queue)

\* processDataQueue takes the next item; processIncomingData up to the call
\* of the first handler.  outcomes: what the host may answer to a reset.
BBeginWith(outcomes) ==
    /\ bBusy /\ bRunning = NoItem /\ bQueue # <<>>
    /\ LET data == Head(bQueue)
       IN /\ bQueue' = shift(bQueue)
          /\ IF data.key \in Range(bDeletedKeys)
             THEN /\ bBusy' = (shift(bQueue) # <<>>)
                  /\ UNCHANGED <<board, objectives, bProcessed, bDeletedKeys, bRunning,
                                 calls, bDropped>>
             ELSE IF ~ValidId(data.id) \/ data.id \in Range(bProcessed)
             THEN /\ \E o1, o2 \in outcomes :
                       LET deleted(d) == board' = d.sb /\ bDeletedKeys' = d.keys
                       IN /\ (o1 # "error" => o2 = o1)
                          /\ deleted(IF ~ValidId(data.id)
                                     THEN deleteInvalidDataSafely(board, bDeletedKeys,
                                                                  data.key, o1, o2)
                                     ELSE deleteProcessedDataSafely(board, bDeletedKeys,
                                                                    data.key, o1, o2))
                  /\ objectives' = IF worlds THEN objectives \cup {INBOX_TABLE}
                                   ELSE objectives
                  /\ bBusy' = (shift(bQueue) # <<>>)
                  /\ UNCHANGED <<bProcessed, bRunning, calls, bDropped>>
             ELSE /\ bProcessed' = markAsProcessed(bProcessed, data.id)
                  /\ bDropped' = bDropped \cup (Range(bProcessed) \ Range(bProcessed'))
                  /\ bRunning' = data
                  /\ calls' = calls (+) SetToBag({Call("b", data)})
                  /\ UNCHANGED <<board, objectives, bDeletedKeys, bBusy>>
    /\ UNCHANGED <<now, worlds, bListening, cUp, cProcessed, cBatch, cBusy, cRunning,
                   sentOk, nSends, firstPoll, pending, hostScoped, lastOp, applied,
                   codecVars, hashVars, retryVars, handlerVars, parserVars, objVars, regVars, overlapVars, lifeVars, timingVars>>

BBegin == BBeginWith(ResetOutcomes)

BBeginItem == BBegin /\ UNCHANGED <<cycleVars, flagVars>>

\* the handler returns: its reply is sent, the row is deleted from the INBOX
BFinishWith(responses, outcomes) ==
    /\ bRunning # NoItem
    /\ \E h \in responses, o1, o2 \in outcomes, timestamp \in Clock :
         LET response == BHandler(DataOf(bRunning))
             sent(snd) ==
                 /\ pending' = pending \o snd.writes
                 /\ sentOk' = IF snd.ok THEN sentOk \cup {Sent("c", snd.msg)} ELSE sentOk
             deleted(d) == board' = d.sb /\ bDeletedKeys' = d.keys
         IN /\ (o1 # "error" => o2 = o1)
            /\ now' = IF response # NoData /\ worlds THEN timestamp ELSE now
            /\ sent(IF response # NoData
                    THEN B_send(response.id, response.data, timestamp, h)
                    ELSE NoSend)
            /\ deleted(deleteProcessedDataSafely(board, bDeletedKeys, bRunning.key,
                                                 o1, o2))
    /\ objectives' = IF worlds THEN objectives \cup Tables ELSE objectives
    /\ bRunning' = NoItem
    /\ bBusy' = (bQueue # <<>>)
    /\ UNCHANGED <<worlds, bListening, bProcessed, bQueue, cUp, cProcessed, cBatch,
                   cBusy, cRunning, calls, bDropped, nSends, firstPoll, hostScoped, lastOp,
                   applied, codecVars, hashVars, retryVars, handlerVars, parserVars, objVars, regVars, overlapVars, cycleVars, lifeVars, timingVars>>

BFinish(responses) == BFinishWith(responses, ResetOutcomes)

BFinishItem == BFinish(HostResponses) /\ UNCHANGED flagVars

\* Math.random() in the fallback id of generateDataKey
Randoms == {0, 1}

\* generateDataKey of the backend: an id that is missing or 'undefined' is
\* replaced by `invalid_${Date.now()}_${Math.random()}` before it is hashed
B_generateDataKey(dataId, timestamp, random) ==
    IF ValidId(dataId) THEN generateDataKey(dataId, timestamp)
    ELSE MathAbs(HashOf(CharCodes("invalid")
                            \o <<UnderscoreCode, DigitCode(now), UnderscoreCode,
                                 DigitCode(random), UnderscoreCode, DigitCode(timestamp)>>,
                        0))

\* generateDataKey(data?.id || 'invalid', data?.timestamp || Date.now()):
\* the key the cleanups derive from the payload of a row
CleanupKey(data, random) ==
    B_generateDataKey(IF data.id = "" THEN "invalid" ELSE data.id,
                      IF data.timestamp = 0 THEN now ELSE data.timestamp, random)

\* Math.random() is called only for an item without a valid id
RandomsFor(items) ==
    IF \A i \in DOMAIN items : ValidId(items[i].id) THEN {0} ELSE Randoms

\* forceCleanupAll: every INBOX row is deleted, lastProcessedIds is reset
RECURSIVE DeleteAll(_, _, _, _, _, _)
DeleteAll(sb, keys, items, random, o1, o2) ==
    IF items = <<>> THEN [sb |-> sb, keys |-> keys]
    ELSE LET rest(d) == DeleteAll(d.sb, d.keys, Tail(items), random, o1, o2)
         IN rest(deleteInvalidData(sb, keys, CleanupKey(Head(items), random), o1, o2))

BForceCleanupAll ==
    /\ \E o1, o2 \in ResetOutcomes :
         LET deleted(d) == board' = d.sb /\ bDeletedKeys' = d.keys
             cleanup(inboxData) ==
                 \E random \in RandomsFor(inboxData) :
                     deleted(DeleteAll(board, bDeletedKeys, inboxData, random, o1, o2))
         IN /\ (o1 # "error" => o2 = o1)
            /\ cleanup(IF worlds
                       THEN SortByTimestamp(ToItems(
                                R_listJsonDirect(board, INBOX_TABLE, hostScoped).items))
                       ELSE <<>>)
    /\ objectives' = IF worlds THEN objectives \cup {INBOX_TABLE} ELSE objectives
    /\ bDropped' = bDropped \cup Range(bProcessed)
    /\ bProcessed' = <<>>
    /\ UNCHANGED <<now, worlds, bListening, bQueue, bBusy, bRunning, cUp, cProcessed,
                   cBatch, cBusy, cRunning, calls, sentOk, nSends, firstPoll,
                   pending, hostScoped, lastOp, applied, codecVars, hashVars, retryVars, handlerVars, parserVars, objVars, regVars, overlapVars, flagVars, cycleVars, lifeVars, timingVars>>

\* ------------------------------------------------- MessageBridge (client)
\* constructor: clearAllTables, then startListening
CConstruct ==
    /\ ~cUp
    /\ board' = [t \in Tables |-> D_clearJsonDirect(board[t])]
    /\ objectives' = objectives \cup Tables
    /\ cProcessed' = {}
    /\ cUp' = TRUE
    /\ UNCHANGED <<now, worlds, bListening, bProcessed, bDeletedKeys, bQueue, bBusy,
                   bRunning, cBatch, cBusy, cRunning, calls, sentOk, bDropped, nSends, firstPoll, pending, hostScoped, lastOp, applied, codecVars, hashVars, retryVars, handlerVars, parserVars, objVars, regVars, overlapVars, flagVars, cycleVars, lifeVars,
                   timingVars>>

\* send of the client, called by the application
CSendWrite(id, data) ==
    /\ cUp
    /\ Len(pending) < MaxPending
    /\ \E timestamp \in Clock :
       LET communicationData == CommunicationData(id, timestamp, data)
           dataKey == generateDataKey(id, timestamp)
           result == D_setJsonDirect(INBOX_TABLE, dataKey, communicationData)
       IN /\ now' = timestamp
          /\ pending' = Append(pending, result.write)
          /\ sentOk' = IF result.res.success THEN sentOk \cup {Sent("b", communicationData)}
                       ELSE sentOk
    /\ objectives' = objectives \cup {INBOX_TABLE}
    /\ nSends' = nSends + 1
    /\ UNCHANGED <<worlds, bListening, bProcessed, bDeletedKeys, bQueue, bBusy,
                   bRunning, cUp, cProcessed, cBatch, cBusy, cRunning, calls, bDropped,
                   firstPoll, board, hostScoped, lastOp, applied, codecVars, hashVars, retryVars, handlerVars, parserVars, objVars, regVars, overlapVars, flagVars, cycleVars, lifeVars>>

CSend(id, data) == nSends < MaxSends /\ CSendWrite(id, data) /\ UNCHANGED timingVars

\* dataItems of pollForData: the listed items mapped, filtered and sorted
C_dataItems(rows, processedIds) ==
    SortByTimestamp(SelectSeq(ToItems(D_listJsonDirect(rows).items),
                              LAMBDA it : it.id # "" /\ it.id \notin processedIds))

\* pollForData up to the loop over the sorted items
CPollStart ==
    /\ cUp /\ ~cBusy
    /\ LET queue(dataItems) == /\ cBatch' = dataItems
                               /\ cBusy' = (dataItems # <<>>)
       IN queue(C_dataItems(board[OUTBOX_TABLE], cProcessed))
    /\ objectives' = objectives \cup {OUTBOX_TABLE}
    /\ UNCHANGED <<now, worlds, bListening, bProcessed, bDeletedKeys, bQueue, bBusy,
                   bRunning, cUp, cProcessed, cRunning, calls, sentOk, bDropped, nSends, firstPoll, board, pending, hostScoped, lastOp, applied,
                   codecVars, hashVars, retryVars, handlerVars, parserVars, objVars, regVars, overlapVars, flagVars, cycleVars, lifeVars, timingVars>>

\* deleteOutboxDataWithRetry: a delete that fails, fails on every attempt
deleteOutboxDataWithRetry(rows, key) == D_deleteJsonDirect(rows, key).rows

\* the loop takes the next item; processIncomingData up to the first handler
CBeginItem ==
    /\ cBusy /\ cRunning = NoItem /\ cBatch # <<>>
    /\ LET data == Head(cBatch)
       IN /\ cBatch' = Tail(cBatch)
          /\ IF data.id \in cProcessed
             THEN /\ board' = [board EXCEPT ![OUTBOX_TABLE] =
                                   deleteOutboxDataWithRetry(@, data.key)]
                  /\ cBusy' = (Tail(cBatch) # <<>>)
                  /\ UNCHANGED <<cRunning, calls>>
             ELSE /\ cRunning' = data
                  /\ calls' = calls (+) SetToBag({Call("c", data)})
                  /\ UNCHANGED <<board, cBusy>>
    /\ UNCHANGED <<now, worlds, bListening, bProcessed, bDeletedKeys, bQueue, bBusy,
                   bRunning, cUp, cProcessed, sentOk, bDropped, nSends, firstPoll,
                   objectives, pending, hostScoped, lastOp, applied, codecVars, hashVars, retryVars, handlerVars, parserVars, objVars, regVars, overlapVars, flagVars, cycleVars, lifeVars,
                   timingVars>>

\* the handlers returned: the id is marked, the row deleted from the OUTBOX
CFinishItem ==
    /\ cRunning # NoItem
    /\ cProcessed' = cProcessed \cup {cRunning.id}
    /\ board' = [board EXCEPT ![OUTBOX_TABLE] = deleteOutboxDataWithRetry(@, cRunning.key)]
    /\ cRunning' = NoItem
    /\ cBusy' = (cBatch # <<>>)
    /\ UNCHANGED <<now, worlds, bListening, bProcessed, bDeletedKeys, bQueue, bBusy,
                   bRunning, cUp, cBatch, calls, sentOk, bDropped, nSends,
                   firstPoll, objectives, pending, hostScoped, lastOp, applied,
                   codecVars, hashVars, retryVars, handlerVars, parserVars, objVars, regVars, overlapVars, flagVars, cycleVars, lifeVars, timingVars>>

\* ------------------------------------------------- bridge specification
ClientIds == {"m1", "m2"}

\* the backend starts with or without a world connected
BridgeInit ==
    StoreIdle /\ hostScoped \in BOOLEAN /\ CodecIdle /\ RetryIdle /\ HashIdle /\ HandlerIdle /\ ParserIdle /\ ObjIdle /\ FlagIdle /\ RegIdle /\ OverlapIdle /\ CycleIdle /\ BridgeIdle /\ worlds \in BOOLEAN

\* Client -> Backend
InboundNext ==
    \/ BStartOnce
    \/ WorldAdd
    \/ RunDeferred
    \/ CConstruct
    \/ \E id \in ClientIds : CSend(id, "hi")
    \/ BPollStart
    \/ BBeginItem
    \/ BFinishItem
    \/ BForceCleanupAll

SpecInbound == BridgeInit /\ [][InboundNext]_vars

\* Backend -> Client
OutboundNext ==
    \/ WorldAdd
    \/ WorldRemove
    \/ RunDeferred
    \/ BSend("r1", "ack")
    \/ CConstruct
    \/ CPollStart
    \/ CBeginItem
    \/ CFinishItem

SpecOutbound == BridgeInit /\ [][OutboundNext]_vars

\* ----------------------------------------------- end-to-end scenario
\* Both bridges are up, a world is connected, the host runs every command it
\* is sent, and the client sends one message.  The game runs the deferred
\* writes on its next tick, which comes before the second poll cycle after
\* the write was queued (the polling interval is at least two ticks).
OkResponses == {h \in HostResponses : h.successCount # 0}

E2EInit ==
    /\ StoreIdle /\ hostScoped \in BOOLEAN /\ CodecIdle /\ RetryIdle /\ HashIdle /\ HandlerIdle /\ ParserIdle /\ ObjIdle /\ FlagIdle /\ RegIdle /\ OverlapIdle /\ CycleIdle
    /\ now = 1 /\ worlds = TRUE /\ bListening = "on"
    /\ bProcessed = <<>> /\ bDeletedKeys = <<>> /\ bQueue = <<>>
    /\ bBusy = FALSE /\ bRunning = NoItem
    /\ cUp = TRUE /\ cProcessed = {} /\ cBatch = <<>> /\ cBusy = FALSE /\ cRunning = NoItem
    /\ calls = EmptyBag /\ sentOk = {} /\ bDropped = {} /\ nSends = 0
    /\ firstPoll = [done |-> FALSE, twice |-> {}]
    /\ tickDue = FALSE /\ polls = 0
    /\ bCallbacks = 0 /\ bPollTimers = 1 /\ bCleanupTimers = 1
    /\ bStopped = FALSE /\ bCleaning = FALSE

E2ESend ==
    /\ nSends = 0
    /\ CSendWrite("m1", "hi")
    /\ UNCHANGED timingVars

E2ERunDeferred ==
    /\ RunWrite
    /\ tickDue' = (tickDue /\ pending' # <<>>)
    /\ UNCHANGED polls

E2EPollStart ==
    /\ ~tickDue
    /\ polls < MaxPolls
    /\ BPoll /\ UNCHANGED cycleVars
    /\ tickDue' = (pending # <<>>)
    /\ polls' = IF nSends > 0 THEN polls + 1 ELSE polls

E2EFinishItem == BFinish(OkResponses) /\ UNCHANGED flagVars

E2ENext ==
    \/ E2ESend
    \/ E2ERunDeferred
    \/ E2EPollStart
    \/ BBeginItem
    \/ E2EFinishItem
    \/ CPollStart
    \/ CBeginItem
    \/ CFinishItem

SpecE2E == E2EInit /\ [][E2ENext]_vars

\* ------------------------------------------- the client without busy flag
\* setInterval calls pollForData on every tick, whether or not an earlier
\* call has returned.  list and delete of the in-game store are synchronous,
\* so a call runs without interruption up to the await of a handler.
MaxCycles == 2

Cycle(running, rest) == [running |-> running, rest |-> rest]

\* the loop of pollForData over the items left, up to the await of the next
\* handler: processIncomingData deletes the row of an id that is in
\* lastProcessedIds by now and hands any other item to the handlers
RECURSIVE V_loop(_, _, _)
V_loop(rows, processedIds, items) ==
    IF items = <<>> THEN [rows |-> rows, running |-> NoItem, rest |-> <<>>]
    ELSE IF Head(items).id \in processedIds
    THEN V_loop(D_deleteJsonDirect(rows, Head(items).key).rows, processedIds, Tail(items))
    ELSE [rows |-> rows, running |-> Head(items), rest |-> Tail(items)]

\* a tick of the polling timer: pollForData up to the await of the handler
\* called with the first item
VPollTick ==
    /\ cUp /\ Len(cCycles) < MaxCycles
    /\ LET awaits(l) ==
               /\ l.running # NoItem
               /\ cCycles' = Append(cCycles, Cycle(l.running, l.rest))
               /\ calls' = calls (+) SetToBag({Call("c", l.running)})
               /\ board' = [board EXCEPT ![OUTBOX_TABLE] = l.rows]
       IN awaits(V_loop(board[OUTBOX_TABLE], cProcessed,
                        C_dataItems(board[OUTBOX_TABLE], cProcessed)))
    /\ objectives' = objectives \cup {OUTBOX_TABLE}
    /\ UNCHANGED <<now, worlds, bListening, bProcessed, bDeletedKeys, bQueue, bBusy,
                   bRunning, cUp, cProcessed, cBatch, cBusy, cRunning, sentOk, bDropped,
                   nSends, firstPoll, pending, hostScoped, lastOp, applied, codecVars,
                   hashVars, retryVars, handlerVars, parserVars, objVars, regVars,
                   flagVars, cycleVars, lifeVars, timingVars>>

\* the handler of call k resolves: processIncomingData marks the id and
\* deletes the row, and the loop goes on to the await of the next handler
\* or to its end
VHandlerReturns ==
    \E k \in DOMAIN cCycles :
        /\ cProcessed' = cProcessed \cup {cCycles[k].running.id}
        /\ LET awaits(l) ==
                   /\ board' = [board EXCEPT ![OUTBOX_TABLE] = l.rows]
                   /\ calls' = IF l.running # NoItem
                               THEN calls (+) SetToBag({Call("c", l.running)})
                               ELSE calls
                   /\ cCycles' = IF l.running # NoItem
                                 THEN [cCycles EXCEPT ![k] = Cycle(l.running, l.rest)]
                                 ELSE RemoveAt(cCycles, k)
           IN awaits(V_loop(D_deleteJsonDirect(board[OUTBOX_TABLE],
                                               cCycles[k].running.key).rows,
                            cProcessed \cup {cCycles[k].running.id}, cCycles[k].rest))
        /\ UNCHANGED <<now, worlds, bListening, bProcessed, bDeletedKeys, bQueue, bBusy,
                       bRunning, cUp, cBatch, cBusy, cRunning, sentOk, bDropped, nSends,
                       firstPoll, objectives, pending, hostScoped, lastOp, applied,
                       codecVars, hashVars, retryVars, handlerVars, parserVars, objVars,
                       regVars, flagVars, cycleVars, lifeVars, timingVars>>

OverlapNext ==
    \/ \E id \in {"r1", "r2"} : BSend(id, "ack")
    \/ RunDeferred
    \/ VPollTick
    \/ VHandlerReturns

SpecOverlap == E2EInit /\ [][OverlapNext]_vars

\* ------------------------------------------- listening and cleanup
\* data.timestamp < oneHourAgo
IsOld(timestamp) == timestamp < now - retention

\* the rows performAutomaticCleanup deletes: without a valid id, old, or
\* processed
SweepDeletes(data, processedIds) ==
    \/ ~ValidId(data.id)
    \/ IsOld(data.timestamp)
    \/ data.id \in processedIds

\* the loop of performAutomaticCleanup over the INBOX rows
RECURSIVE SweepAll(_, _, _, _, _, _, _)
SweepAll(sb, keys, items, processedIds, random, o1, o2) ==
    IF items = <<>> THEN [sb |-> sb, keys |-> keys]
    ELSE LET rest(d) == SweepAll(d.sb, d.keys, Tail(items), processedIds, random, o1, o2)
             next(dataKey) ==
                 IF dataKey \in Range(keys) THEN rest([sb |-> sb, keys |-> keys])
                 ELSE IF SweepDeletes(Head(items), processedIds)
                 THEN rest(deleteInvalidData(sb, keys, dataKey, o1, o2))
                 ELSE rest([sb |-> sb, keys |-> keys])
         IN next(CleanupKey(Head(items), random))

\* lastProcessedIds.size > maxProcessedIds * 1.2: the newest maxProcessedIds stay
TrimProcessed(ids) ==
    IF 10 * Len(ids) > 12 * maxProcessedIds
    THEN SubSeq(ids, Len(ids) - maxProcessedIds + 1, Len(ids))
    ELSE ids

\* the cleanup timer fires: performAutomaticCleanup up to its listing
BSweepEnter ==
    /\ bCleanupTimers > 0
    /\ ~Busy(bCleaning, bBusy)
    /\ bCleaning' = TRUE
    /\ UNCHANGED <<now, worlds, bListening, bProcessed, bDeletedKeys, bQueue, bBusy,
                   bRunning, cUp, cProcessed, cBatch, cBusy, cRunning, calls, sentOk,
                   bDropped, nSends, firstPoll, bCallbacks, bPollTimers, bCleanupTimers,
                   bStopped, storeVars, codecVars, hashVars, retryVars, handlerVars, parserVars, objVars, regVars, overlapVars, cycleVars, timingVars>>

\* performAutomaticCleanup from its listing of the INBOX on
BSweepExitWith(outcomes) ==
    /\ bCleaning
    /\ \E o1, o2 \in outcomes :
         LET deleted(d) == board' = d.sb /\ bDeletedKeys' = d.keys
             cleanup(inboxData) ==
                 \E random \in RandomsFor(inboxData) :
                     deleted(SweepAll(board, bDeletedKeys, inboxData, Range(bProcessed),
                                      random, o1, o2))
         IN /\ (o1 # "error" => o2 = o1)
            /\ cleanup(IF worlds
                       THEN SortByTimestamp(ToItems(
                                R_listJsonDirect(board, INBOX_TABLE, hostScoped).items))
                       ELSE <<>>)
    /\ objectives' = IF worlds THEN objectives \cup {INBOX_TABLE} ELSE objectives
    /\ bProcessed' = TrimProcessed(bProcessed)
    /\ bDropped' = bDropped \cup (Range(bProcessed) \ Range(bProcessed'))
    /\ bCleaning' = FALSE
    /\ UNCHANGED <<now, worlds, bListening, bQueue, bBusy, bRunning, cUp, cProcessed,
                   cBatch, cBusy, cRunning, calls, sentOk, nSends, firstPoll,
                   bCallbacks, bPollTimers, bCleanupTimers, bStopped,
                   pending, hostScoped, lastOp, applied, codecVars, hashVars, retryVars, handlerVars, parserVars, objVars, regVars, overlapVars, cycleVars, timingVars>>

BSweepExit == BSweepExitWith(ResetOutcomes)

BSweepStart == BSweepEnter /\ UNCHANGED flagVars

BSweepFinish == BSweepExit /\ UNCHANGED flagVars

\* the polling timer fires
BPollTick ==
    /\ polls < MaxPolls
    /\ BPoll /\ UNCHANGED cycleVars
    /\ polls' = polls + 1
    /\ UNCHANGED tickDue

\* the application sends once from the backend
BSendOnce == sentOk = {} /\ BSend("r1", "ack") /\ UNCHANGED timingVars

LifecycleInit ==
    /\ StoreIdle /\ hostScoped = TRUE /\ CodecIdle /\ RetryIdle /\ HashIdle /\ HandlerIdle /\ ParserIdle /\ ObjIdle /\ FlagIdle /\ RegIdle /\ OverlapIdle /\ CycleIdle /\ BridgeIdle /\ worlds \in BOOLEAN

LifecycleNext ==
    \/ BStartListening
    \/ BStopListening
    \/ BSetPollingInterval
    \/ WorldAdd
    \/ WorldRemove
    \/ CConstruct
    \/ E2ESend
    \/ RunDeferred
    \/ BSendOnce
    \/ BPollTick
    \/ BBeginItem
    \/ E2EFinishItem
    \/ BSweepStart
    \/ BSweepFinish
    \/ BForceCleanupAll

SpecLifecycle == LifecycleInit /\ [][LifecycleNext]_vars

\* ------------------------------------------- the busy flags
\* The two timers of a listening backend: each call of pollForData and of
\* performAutomaticCleanup is followed from its guard to its return.
\* pollForData from its guard to the await of jsonDB.list
FPollTick ==
    /\ bPollTimers > 0
    /\ ~Busy(bBusy, bCleaning)
    /\ worlds
    /\ bBusy' = TRUE
    /\ bPolling' = bPolling + 1
    /\ UNCHANGED <<now, worlds, bListening, bProcessed, bDeletedKeys, bQueue, bRunning,
                   cUp, cProcessed, cBatch, cBusy, cRunning, calls, sentOk, bDropped,
                   nSends, firstPoll, bSweeping, storeVars, codecVars, hashVars, retryVars,
                   handlerVars, parserVars, objVars, regVars, overlapVars, cycleVars, lifeVars, timingVars>>

\* jsonDB.list resolves or rejects: pollForData up to processDataQueue, or
\* to its return when nothing is to be processed
ListOutcomes == {"items", "failed", "throws"}

FPollListedWith(outcomes) ==
    /\ bPolling > 0 /\ bBusy /\ bQueue = <<>> /\ bRunning = NoItem
    /\ \E outcome \in outcomes :
         LET queue(newData) ==
                 /\ bQueue' = newData
                 /\ bBusy' = (newData # <<>>)
                 /\ bPolling' = IF newData # <<>> THEN bPolling ELSE bPolling - 1
         IN /\ queue(IF worlds /\ outcome = "items"
                     THEN B_newData(board, hostScoped, bDeletedKeys, bQueue)
                     ELSE <<>>)
            /\ objectives' = IF worlds /\ outcome # "throws"
                             THEN objectives \cup {INBOX_TABLE} ELSE objectives
    /\ UNCHANGED <<now, worlds, bListening, bProcessed, bDeletedKeys, bRunning,
                   cUp, cProcessed, cBatch, cBusy, cRunning, calls, sentOk, bDropped,
                   nSends, firstPoll, bSweeping, board, pending, hostScoped, lastOp, applied,
                   codecVars, hashVars, retryVars, handlerVars, parserVars, objVars, regVars, overlapVars,
                   cycleVars, lifeVars, timingVars>>

FPollListed == FPollListedWith(ListOutcomes)

\* the finally of pollForData, once processDataQueue has emptied the queue
PollReturns ==
    /\ bPolling' = IF bBusy /\ ~bBusy' THEN bPolling - 1 ELSE bPolling
    /\ UNCHANGED bSweeping

FBeginItem == BBegin /\ PollReturns /\ UNCHANGED cycleVars

FFinishItem == BFinish(OkResponses) /\ PollReturns

\* performAutomaticCleanup from its guard to the await of getInboxData
FSweepTick == BSweepEnter /\ bSweeping' = bSweeping + 1 /\ UNCHANGED bPolling

\* the sweep runs to its end
FSweepDone == bSweeping > 0 /\ BSweepExit /\ bSweeping' = bSweeping - 1 /\ UNCHANGED bPolling

\* a delete of the sweep throws: the finally of performAutomaticCleanup
FSweepThrows ==
    /\ bSweeping > 0 /\ bCleaning
    /\ bCleaning' = FALSE
    /\ bSweeping' = bSweeping - 1
    /\ UNCHANGED <<now, worlds, bListening, bProcessed, bDeletedKeys, bQueue, bBusy,
                   bRunning, cUp, cProcessed, cBatch, cBusy, cRunning, calls, sentOk,
                   bDropped, nSends, firstPoll, bCallbacks, bPollTimers, bCleanupTimers,
                   bStopped, bPolling, storeVars, codecVars, hashVars, retryVars,
                   handlerVars, parserVars, objVars, regVars, overlapVars, cycleVars, timingVars>>

FlagsNext ==
    \/ \E id \in ClientIds : CSend(id, "hi")
    \/ RunDeferred
    \/ WorldRemove
    \/ WorldAdd
    \/ FPollTick
    \/ FPollListed
    \/ FBeginItem
    \/ FFinishItem
    \/ FSweepTick
    \/ FSweepDone
    \/ FSweepThrows

SpecFlags == E2EInit /\ [][FlagsNext]_vars

\* ------------------------------------------- deletes that keep failing
\* Both bridges are up and the backend listens; worlds come and go while
\* the client sends and the backend polls.
RetryNext ==
    \/ \E id \in ClientIds : CSend(id, "hi")
    \/ RunDeferred
    \/ WorldRemove
    \/ WorldAdd
    \/ BPollStart
    \/ BBeginItem
    \/ E2EFinishItem

SpecRetry == E2EInit /\ [][RetryNext]_vars

\* --------------------------------------------------- rows without an id
\* Both bridges are up and the backend listens; the client also sends
\* messages whose id is the text undefined.
InvalidNext ==
    \/ \E id \in {"m1"} \cup InvalidIds : CSend(id, "hi")
    \/ RunDeferred
    \/ WorldRemove
    \/ WorldAdd
    \/ BPollStart
    \/ BBeginItem
    \/ E2EFinishItem

SpecInvalid == E2EInit /\ [][InvalidNext]_vars

\* ------------------------------------------------ the processed-id set
\* Messages come in and the sweeps run between the poll cycles.
ProcessedNext ==
    \/ \E id \in ClientIds : CSend(id, "hi")
    \/ RunDeferred
    \/ BPollStart
    \/ BBeginItem
    \/ E2EFinishItem
    \/ BSweepStart
    \/ BSweepFinish
    \/ BForceCleanupAll

SpecProcessed == E2EInit /\ [][ProcessedNext]_vars

\* ------------------------------------------------- one poll cycle, row by row
\* The batch of each poll cycle is kept, and for each item what
\* processIncomingData saw when its turn came and what it did.
Turn(data, handed, rowLeft) ==
    [item |-> data, processed |-> Range(bProcessed), deleted |-> Range(bDeletedKeys),
     handed |-> handed, rowLeft |-> rowLeft]

\* pollForData, the batch noted
TPollStart ==
    /\ BPoll /\ UNCHANGED timingVars
    /\ bBatch' = bQueue'
    /\ bTurns' = <<>>

\* processIncomingData up to the first handler, the turn noted
TBeginItem ==
    /\ BBegin
    /\ bTurns' = Append(bTurns,
                        Turn(Head(bQueue), calls' # calls,
                             \E i \in DOMAIN board'[INBOX_TABLE] :
                                board'[INBOX_TABLE][i].score = Head(bQueue).key))
    /\ UNCHANGED <<bBatch, flagVars>>

CycleNext ==
    \/ \E id \in {"m1"} \cup InvalidIds : CSend(id, "hi")
    \/ RunDeferred
    \/ WorldRemove
    \/ WorldAdd
    \/ TPollStart
    \/ TBeginItem
    \/ E2EFinishItem

SpecCycle == E2EInit /\ [][CycleNext]_vars

\* ------------------------------------------------- handlers that throw
\* Two handlers are registered with onReceive: the first answers as BHandler
\* does, the second returns nothing.  Either may throw on any call.
dataHandlers == <<"reply", "quiet">>

Throws == [DOMAIN dataHandlers -> BOOLEAN]

Invocation(handler, m, threw) ==
    [handler |-> handler, id |-> m.id, timestamp |-> m.timestamp, threw |-> threw]

HandlerResponse(handler, m) == IF handler = "reply" THEN BHandler(m) ELSE NoData

\* the handler loop without its inner try/catch: the first throw ends it
RECURSIVE RunHandlers_NoCatch(_, _, _, _)
RunHandlers_NoCatch(handlers, i, m, throws) ==
    IF i > Len(handlers) THEN [log |-> <<>>, responses |-> <<>>, failed |-> FALSE]
    ELSE IF throws[i]
    THEN [log |-> <<Invocation(handlers[i], m, TRUE)>>, responses |-> <<>>,
          failed |-> TRUE]
    ELSE LET then(rest) ==
                 [log |-> <<Invocation(handlers[i], m, FALSE)>> \o rest.log,
                  responses |-> (IF HandlerResponse(handlers[i], m) # NoData
                                 THEN <<HandlerResponse(handlers[i], m)>> ELSE <<>>)
                                \o rest.responses,
                  failed |-> rest.failed]
         IN then(RunHandlers_NoCatch(handlers, i + 1, m, throws))

\* for (const handler of this.dataHandlers) { try { ... } catch { log } }:
\* the invocations made from handler i on, the responses to send, and whether
\* an error left the loop
RECURSIVE RunHandlers(_, _, _, _)
RunHandlers(handlers, i, m, throws) ==
    IF i > Len(handlers) THEN [log |-> <<>>, responses |-> <<>>, failed |-> FALSE]
    ELSE LET response == IF throws[i] THEN NoData ELSE HandlerResponse(handlers[i], m)
             then(rest) ==
                 [log |-> <<Invocation(handlers[i], m, throws[i])>> \o rest.log,
                  responses |-> (IF response # NoData THEN <<response>> ELSE <<>>)
                                \o rest.responses,
                  failed |-> rest.failed]
         IN then(RunHandlers(handlers, i + 1, m, throws))

\* lastProcessedIds.delete(data.id)
Unmark(ids, id) == SelectSeq(ids, LAMBDA x : x # id)

\* processIncomingData from the handler loop to its end, with the handlers
\* registered at that time
HFinish(handlers) ==
    /\ bRunning # NoItem
    /\ \E throws \in Throws, h \in OkResponses, o1, o2 \in ResetOutcomes, timestamp \in Clock :
         LET sent(snd) ==
                 /\ pending' = pending \o snd.writes
                 /\ sentOk' = IF snd.ok THEN sentOk \cup {Sent("c", snd.msg)} ELSE sentOk
             deleted(d) == board' = d.sb /\ bDeletedKeys' = d.keys
             ran(run) ==
                 /\ bHandled' = bHandled \o run.log
                 /\ now' = IF run.responses # <<>> /\ worlds THEN timestamp ELSE now
                 /\ sent(IF run.responses # <<>>
                         THEN B_send(run.responses[1].id, run.responses[1].data,
                                     timestamp, h)
                         ELSE NoSend)
                 /\ IF run.failed
                    THEN /\ bProcessed' = Unmark(bProcessed, bRunning.id)
                         /\ UNCHANGED <<board, bDeletedKeys>>
                    ELSE /\ deleted(deleteProcessedDataSafely(board, bDeletedKeys,
                                                              bRunning.key, o1, o2))
                         /\ UNCHANGED bProcessed
         IN /\ (o1 # "error" => o2 = o1)
            /\ ran(RunHandlers(handlers, 1, DataOf(bRunning), throws))
    /\ objectives' = IF worlds THEN objectives \cup Tables ELSE objectives
    /\ bRunning' = NoItem
    /\ bBusy' = (bQueue # <<>>)
    /\ UNCHANGED <<worlds, bListening, bQueue, cUp, cProcessed, cBatch,
                   cBusy, cRunning, calls, bDropped, nSends, firstPoll, hostScoped, lastOp,
                   applied, codecVars, hashVars, retryVars, parserVars, objVars, regVars, overlapVars, flagVars, cycleVars, lifeVars, timingVars>>

HFinishItem == HFinish(dataHandlers)

\* the client sends a message it has not sent before
HSend == \E id \in ClientIds : CSend(id, "hi") /\ sentOk' # sentOk

HandlersNext ==
    \/ HSend
    \/ RunDeferred
    \/ BPollStart
    \/ BBeginItem
    \/ HFinishItem

SpecHandlers == E2EInit /\ [][HandlersNext]_vars

\* ------------------------------------------- handlers registered late
\* The backend listens before a handler is registered: index.ts calls
\* bridge.startListening() and then initializeEventListener(), which calls
\* onReceive at once or, without a world, when a world is added.
MaxHandlers == 1

\* onReceive(handler): this.dataHandlers.push(handler)
onReceive ==
    /\ Len(bHandlers) < MaxHandlers
    /\ bHandlers' = Append(bHandlers, dataHandlers[Len(bHandlers) + 1])
    /\ UNCHANGED <<storeVars, bridgeVars, timingVars, codecVars, retryVars, hashVars,
                   handlerVars, cycleVars, parserVars, objVars, flagVars, overlapVars>>

\* processIncomingData from the handler loop to its end
LFinishItem == HFinish(bHandlers)

LateNext ==
    \/ HSend
    \/ RunDeferred
    \/ onReceive
    \/ BPollStart
    \/ BBeginItem
    \/ LFinishItem

SpecLate == E2EInit /\ [][LateNext]_vars

\* ------------------------------------------- rows that are never removed
\* The backend keeps listening with a world connected and every reset
\* command removes its participant.  Rows come from the client, with valid
\* and invalid ids, and from another user of the scoreboard, whose
\* participant names are no JSON text.
Succeeds == {"removed"}

GPollListed == FPollListedWith({"items"})

GBeginItem == BBeginWith(Succeeds) /\ PollReturns /\ UNCHANGED cycleVars

GFinishItem == BFinishWith(OkResponses, Succeeds) /\ PollReturns

GSweepDone ==
    bSweeping > 0 /\ BSweepExitWith(Succeeds) /\ bSweeping' = bSweeping - 1
                  /\ UNCHANGED bPolling

ForeverNext ==
    \/ \E id \in {"m1"} \cup InvalidIds : CSend(id, "hi")
    \/ RunDeferred
    \/ \E n \in CorruptNames, id \in Ids : InjectRow(INBOX_TABLE, n, id)
    \/ FPollTick
    \/ GPollListed
    \/ GBeginItem
    \/ GFinishItem
    \/ FSweepTick
    \/ GSweepDone

\* the steps of GPollListed, GBeginItem, GFinishItem and GSweepDone, by
\* their guard and what they do to one variable: a call that awaits its
\* list leaves that state, the queue loses its head, the handler returns,
\* the sweep ends
ListedTurn ==
    /\ bPolling > 0 /\ bBusy /\ bQueue = <<>> /\ bRunning = NoItem
    /\ bPolling' = bPolling - 1

BeginTurn ==
    /\ bBusy /\ bRunning = NoItem /\ bQueue # <<>>
    /\ bQueue' = Tail(bQueue)

FinishTurn == bRunning # NoItem /\ bRunning' = NoItem

SweepTurn == bSweeping > 0 /\ bCleaning /\ bSweeping' = bSweeping - 1

\* The timers of setInterval fire again and again while the bridge listens,
\* so each of the two callbacks is run again and again at a time when the
\* bridge is idle, and an awaited promise is settled in the end.
SpecForever ==
    /\ E2EInit /\ [][ForeverNext]_vars
    /\ SF_vars(FPollTick) /\ SF_vars(FSweepTick)
    /\ WF_bPolling(ListedTurn) /\ WF_bQueue(BeginTurn)
    /\ WF_bRunning(FinishTurn) /\ WF_bSweeping(SweepTurn)

\* ------------------------------------------------- the keys of the cleanups
\* The client sends messages with and without a valid id; the backend polls,
\* sweeps and is asked to clean up everything.
CleanupNext ==
    \/ \E id \in {"m1"} \cup InvalidIds : CSend(id, "hi")
    \/ RunDeferred
    \/ BPollStart
    \/ BBeginItem
    \/ E2EFinishItem
    \/ BSweepStart
    \/ BSweepFinish
    \/ BForceCleanupAll

SpecCleanup == E2EInit /\ [][CleanupNext]_vars

\* getInboxData: the payloads of the listed INBOX rows, each with the store
\* id of its row
InboxData == ToItems(R_listJsonDirect(board, INBOX_TABLE, hostScoped).items)

\* C39: the key a cleanup derives from the payload of an INBOX row it deletes
\* is the store id of that row. forceCleanupAll deletes every row it lists,
\* the sweep in progress those without a valid id, the old and the processed
\* ones; the row's id may be valid or not.
C39_CleanupKeyIsStoreId ==
    worlds =>
        \A i \in DOMAIN InboxData, random \in Randoms :
            /\ CleanupKey(InboxData[i], random) = InboxData[i].key
            /\ (bCleaning /\ SweepDeletes(InboxData[i], Range(bProcessed))) =>
                   CleanupKey(InboxData[i], random) = InboxData[i].key

\* ------------------------------------------------- the verified deletes
\* deleteProcessedDataSafely and deleteInvalidDataSafely run inside a poll
\* cycle of the backend, deleteProcessedData and deleteInvalidData inside
\* its sweep, deleteOutboxDataWithRetry inside a poll cycle of the client.
maxRetries == 3

SafeKinds == {"deleteProcessedDataSafely", "deleteInvalidDataSafely"}
SweepKinds == {"deleteProcessedData", "deleteInvalidData"}
ClientKinds == {"deleteOutboxDataWithRetry"}
DeleteKinds == SafeKinds \cup SweepKinds \cup ClientKinds

NextRetry_Stuck(retryCount) == retryCount

\* retryCount++
NextRetry(retryCount) == retryCount + 1

\* whether an attempt ends the loop: the Safely functions also stop on a
\* verified delete and on "not found"
AttemptEnds(kind, r) ==
    IF kind \in SafeKinds THEN r.res.success \/ r.verified \/ r.res.error = "not found"
    ELSE r.res.success

\* a delete call that raised, or that found no world
FailedDelete(e) == [res |-> Result(FALSE, e, <<>>), verified |-> FALSE, sb |-> board]

\* jsonDB.delete of the bridge that runs the function
StoreDelete(kind, key, o1, o2) ==
    IF kind \in ClientKinds
    THEN [res |-> D_deleteJsonDirect(board[OUTBOX_TABLE], key).res, verified |-> FALSE,
          sb |-> [board EXCEPT ![OUTBOX_TABLE] = D_deleteJsonDirect(@, key).rows]]
    ELSE IF ~worlds THEN FailedDelete("Failed to access table")
    ELSE R_deleteJsonDirect(board, INBOX_TABLE, key, hostScoped, o1, o2)

\* One of the five functions is called for a store id.  A Safely function
\* returns at once for a key in deletedKeys.
DeleteBegin(kind, key) ==
    /\ dPc = "idle" /\ ~bBusy /\ ~bCleaning /\ ~cBusy
    /\ dKind' = kind /\ dKey' = key /\ dRetry' = 0 /\ dCalls' = 0
    /\ dPc' = IF kind \in SafeKinds /\ key \in Range(bDeletedKeys) THEN "done" ELSE "try"
    /\ bBusy' = (kind \in SafeKinds)
    /\ bCleaning' = (kind \in SweepKinds)
    /\ cBusy' = (kind \in ClientKinds)
    /\ UNCHANGED <<now, worlds, bListening, bProcessed, bDeletedKeys, bQueue, bRunning,
                   cUp, cProcessed, cBatch, cRunning, calls, sentOk, bDropped, nSends,
                   firstPoll, bCallbacks, bPollTimers, bCleanupTimers, bStopped,
                   storeVars, codecVars, hashVars, handlerVars, parserVars, objVars, regVars, overlapVars, flagVars, cycleVars, timingVars>>

\* One turn of the retry loop: a Safely function first waits until
\* isPerformingCleanup is false; the delete call returns or raises.
DeleteAttempt(raises, o1, o2) ==
    /\ dPc = "try"
    /\ dKind \in SafeKinds => ~bCleaning
    /\ (o1 # "error" => o2 = o1)
    /\ dCalls' = dCalls + 1
    /\ LET attempted(r) ==
               /\ board' = r.sb
               /\ IF AttemptEnds(dKind, r)
                  THEN /\ dPc' = "done" /\ dRetry' = dRetry
                       /\ bDeletedKeys' = IF dKind \in ClientKinds THEN bDeletedKeys
                                           ELSE maintainDeletedKeysSize(
                                                    AddKey(bDeletedKeys, dKey))
                  ELSE /\ dRetry' = NextRetry(dRetry)
                       /\ dPc' = IF NextRetry(dRetry) < maxRetries THEN "try" ELSE "done"
                       /\ bDeletedKeys' = IF dKind \in SafeKinds
                                              /\ ~(NextRetry(dRetry) < maxRetries)
                                           THEN AddKey(bDeletedKeys, dKey)
                                           ELSE bDeletedKeys
       IN attempted(IF raises THEN FailedDelete("Error: command")
                    ELSE StoreDelete(dKind, dKey, o1, o2))
    /\ objectives' = IF raises \/ (dKind \notin ClientKinds /\ ~worlds) THEN objectives
                     ELSE objectives \cup {IF dKind \in ClientKinds THEN OUTBOX_TABLE
                                            ELSE INBOX_TABLE}
    /\ applied' = [t \in Tables |-> Resync(applied[t], board[t], board'[t])]
    /\ UNCHANGED <<now, worlds, bListening, bProcessed, bQueue, bBusy, bRunning,
                   cUp, cProcessed, cBatch, cBusy, cRunning, calls, sentOk, bDropped, nSends,
                   firstPoll, pending, hostScoped, lastOp, dKind, dKey,
                   codecVars, hashVars, handlerVars, parserVars, objVars, regVars, overlapVars, flagVars, cycleVars, lifeVars, timingVars>>

\* The function returns, and then the cycle or sweep that called it.
DeleteReturn ==
    /\ dPc = "done"
    /\ dPc' = "idle" /\ dKind' = "" /\ dKey' = 0 /\ dRetry' = 0 /\ dCalls' = 0
    /\ bBusy' = FALSE /\ bCleaning' = FALSE /\ cBusy' = FALSE
    /\ UNCHANGED <<now, worlds, bListening, bProcessed, bDeletedKeys, bQueue, bRunning,
                   cUp, cProcessed, cBatch, cRunning, calls, sentOk, bDropped, nSends,
                   firstPoll, bCallbacks, bPollTimers, bCleanupTimers, bStopped,
                   storeVars, codecVars, hashVars, handlerVars, parserVars, objVars, regVars, overlapVars, flagVars, cycleVars, timingVars>>

\* one record at most, on a host that lists per objective
DeleteInit == ListingInit /\ TotalRows <= MaxFaultyRows /\ hostScoped

DeleteNext ==
    \/ \E kind \in DeleteKinds, key \in Ids : DeleteBegin(kind, key)
    \/ \E raises \in BOOLEAN, o1, o2 \in ResetOutcomes : DeleteAttempt(raises, o1, o2)
    \/ DeleteReturn
    \/ WorldAdd
    \/ WorldRemove

\* the steps of DeleteAttempt, by their guard and what they do to dCalls
AttemptTurn ==
    /\ dPc = "try"
    /\ dKind \in SafeKinds => ~bCleaning
    /\ dCalls' = dCalls + 1

\* A pending timer or promise of the event loop is run at last: the loop
\* takes its next turn and a function that is done returns.
SpecDelete ==
    /\ DeleteInit /\ [][DeleteNext]_vars
    /\ WF_dCalls(AttemptTurn)
    /\ WF_vars(DeleteReturn)

\* ------------------------------------------------------ the key encoder
\* the names are drawn over x, f, j and t, up to MaxNameLen characters
NameCodes == {120, 102, 106, 116}
RECURSIVE NamesUpTo(_)
NamesUpTo(n) ==
    IF n = 0 THEN {<<>>}
    ELSE LET S == NamesUpTo(n - 1)
         IN S \cup {Append(s, c) : s \in {t \in S : Len(t) = n - 1}, c \in NameCodes}

\* the name xfjfxtf
LongName == <<120, 102, 106, 102, 120, 116, 102>>

\* the least 32-bit integer
MinInt32 == (0 - 32768) * 65536

\* a number up to 2^31 by its two 16-bit halves
Halves(hi, lo) == [hi |-> hi, lo |-> lo]
NoKey == Halves(-1, 0)

\* nameToNumber: Math.abs of the hash; the result is a double, so the
\* absolute value of the least 32-bit integer is 2^31
nameToNumber(name) ==
    LET abs(hash) == IF hash = MinInt32 THEN Halves(32768, 0)
                     ELSE Halves(MathAbs(hash) \div 65536, MathAbs(hash) % 65536)
    IN abs(HashOf(name, 0))

HashInit ==
    /\ hName \in NamesUpTo(MaxNameLen) \cup {LongName}
    /\ hKey = NoKey
    /\ StoreIdle /\ hostScoped = TRUE /\ CodecIdle /\ RetryIdle /\ BridgeIdle /\ worlds = TRUE
    /\ HandlerIdle /\ ParserIdle /\ ObjIdle /\ FlagIdle /\ RegIdle /\ OverlapIdle /\ CycleIdle

Encode ==
    /\ hKey = NoKey
    /\ hKey' = nameToNumber(hName)
    /\ UNCHANGED <<hName, storeVars, bridgeVars, timingVars, codecVars, retryVars, handlerVars, parserVars, objVars, regVars, overlapVars, flagVars, cycleVars>>

\* the same name is encoded again
EncodeAgain ==
    /\ hKey # NoKey
    /\ hKey' = nameToNumber(hName)
    /\ UNCHANGED <<hName, storeVars, bridgeVars, timingVars, codecVars, retryVars, handlerVars, parserVars, objVars, regVars, overlapVars, flagVars, cycleVars>>

HashNext == Encode \/ EncodeAgain

SpecHash == HashInit /\ [][HashNext]_vars

\* ------------------------------------------------- the remote line parser
\* The output of a list command is drawn line by line; listJsonDirect and
\* getJsonDirect (through processScoreboardLines) read it for the INBOX.
ParserNames == {JSONstringify(v) : v \in StoreValues} \cup {<<"a">>}

ParserLines ==
    {HeaderLine(n) : n \in ParserNames}
    \cup {DetailLine(INBOX_TABLE, 1), DetailLine(INBOX_TABLE, 2), DetailLine(OUTBOX_TABLE, 1)}
    \cup {LegacyLine(JSONstringify(Generic(<<"a">>)), 2)}

RECURSIVE LinesUpTo(_)
LinesUpTo(n) ==
    IF n = 0 THEN {<<>>}
    ELSE LinesUpTo(n - 1)
         \cup {Append(ls, l) : ls \in {x \in LinesUpTo(n - 1) : Len(x) = n - 1},
                               l \in ParserLines}

ParserInit ==
    /\ StoreIdle /\ hostScoped = TRUE /\ CodecIdle /\ RetryIdle /\ BridgeIdle /\ worlds = TRUE
    /\ HashIdle /\ HandlerIdle /\ CycleIdle /\ ObjIdle /\ FlagIdle /\ RegIdle /\ OverlapIdle
    /\ pLines \in LinesUpTo(MaxLines)
    /\ pRecords = <<>> /\ pParsed = NoParse

\* the loop of listJsonDirect over the lines
ParseList ==
    /\ pParsed = NoParse
    /\ pRecords' = R_items(pLines, INBOX_TABLE, <<>>)
    /\ pParsed' = [op |-> "list", id |-> 0]
    /\ UNCHANGED <<pLines, storeVars, bridgeVars, timingVars, codecVars, retryVars,
                   hashVars, handlerVars, cycleVars, objVars, regVars, overlapVars, flagVars>>

\* processScoreboardLines for one id
ParseGet(id) ==
    /\ pParsed = NoParse
    /\ LET found(r) == pRecords' = IF r.success THEN <<[id |-> id, data |-> r.data]>>
                                   ELSE <<>>
       IN found(processScoreboardLines(pLines, id, INBOX_TABLE, <<>>))
    /\ pParsed' = [op |-> "get", id |-> id]
    /\ UNCHANGED <<pLines, storeVars, bridgeVars, timingVars, codecVars, retryVars,
                   hashVars, handlerVars, cycleVars, objVars, regVars, overlapVars, flagVars>>

ParserNext == ParseList \/ \E id \in Ids : ParseGet(id)

SpecParser == ParserInit /\ [][ParserNext]_vars

\* ------------------------------------------------- the objective of a table
\* getOrCreateObjective of the remote store reads the host's list of
\* objectives.  Names are made of the word characters t and x and of the
\* hyphen, which \w does not match.
ObjChars == {"t", "x", "-"}
WordChars == {"t", "x"}

RECURSIVE ObjNamesOfLen(_)
ObjNamesOfLen(n) ==
    IF n = 0 THEN {<<>>}
    ELSE {Append(w, c) : w \in ObjNamesOfLen(n - 1), c \in ObjChars}

ObjNames == UNION {ObjNamesOfLen(n) : n \in 1..MaxObjName}

\* "- <name>: '<display name>' ..." for an objective, and the heading line
ObjectiveLine(name) == [kind |-> "objective", name |-> name]
HeadingLine == [kind |-> "heading", name |-> <<>>]
ObjLines == {ObjectiveLine(n) : n \in ObjNames} \cup {HeadingLine}

RECURSIVE ObjOutputs(_)
ObjOutputs(n) ==
    IF n = 0 THEN {<<>>}
    ELSE ObjOutputs(n - 1)
         \cup {Append(ls, l) : ls \in {x \in ObjOutputs(n - 1) : Len(x) = n - 1},
                               l \in ObjLines}

\* the longest run of word characters a text starts with
RECURSIVE WordPrefix(_)
WordPrefix(text) ==
    IF text = <<>> \/ Head(text) \notin WordChars THEN <<>>
    ELSE <<Head(text)>> \o WordPrefix(Tail(text))

\* line.match(/^-\s*(\w+):/): the group, <<>> when the line does not match.
\* In an objective line the colon follows the name.
ObjectiveMatch(line) ==
    IF line.kind # "objective" THEN <<>>
    ELSE IF WordPrefix(line.name) = line.name THEN line.name
    ELSE <<>>

\* objectiveExists after the loop over the lines
objectiveExists(lines, tableName) ==
    \E i \in DOMAIN lines :
        ObjectiveMatch(lines[i]) # <<>> /\ ObjectiveMatch(lines[i]) = tableName

ObjInit ==
    /\ StoreIdle /\ hostScoped = TRUE /\ CodecIdle /\ RetryIdle /\ BridgeIdle /\ worlds = TRUE
    /\ HashIdle /\ HandlerIdle /\ CycleIdle /\ ParserIdle /\ FlagIdle /\ RegIdle /\ OverlapIdle
    /\ oLines \in ObjOutputs(MaxObjLines)
    /\ oTable \in ObjNames
    /\ oCommands = <<>>

\* getOrCreateObjective with a world: the list command, then the add command
\* when no line matched
GetOrCreateObjective ==
    /\ oCommands = <<>>
    /\ oCommands' = IF objectiveExists(oLines, oTable) THEN <<"list">>
                    ELSE <<"list", "add">>
    /\ UNCHANGED <<oLines, oTable, storeVars, bridgeVars, timingVars, codecVars, retryVars,
                   hashVars, handlerVars, cycleVars, parserVars, flagVars, regVars, overlapVars>>

\* the host answers the add command
HostAnswersAdd ==
    /\ Len(oCommands) = 2
    /\ oCommands' = Append(oCommands,
                           IF \E i \in DOMAIN oLines : oLines[i] = ObjectiveLine(oTable)
                           THEN "exists" ELSE "added")
    /\ UNCHANGED <<oLines, oTable, storeVars, bridgeVars, timingVars, codecVars, retryVars,
                   hashVars, handlerVars, cycleVars, parserVars, flagVars, regVars, overlapVars>>

ObjNext == GetOrCreateObjective \/ HostAnswersAdd

SpecObjectives == ObjInit /\ [][ObjNext]_vars

\* --------------------------------------------- the store under failures
\* What the backend under a store call does: it works ("none"), the server
\* has no world ("noWorld", remote backend), or the objective or command
\* call raises an exception ("throws").
Faults == {"none", "noWorld", "throws"}
FaultsOf(be, hasWorld) ==
    IF be = "direct" THEN {"none", "throws"}
    ELSE IF hasWorld THEN {"none", "throws"} ELSE {"noWorld"}

StoreOps == {"set", "get", "delete", "exists", "list", "clear"}

\* how the body of an operation ends: it returns res, or it raises res.error
Outcome(r, found, sb, writes) ==
    [res |-> r, found |-> found, sb |-> sb, writes |-> writes, threw |-> FALSE]
Throw(e, sb) ==
    [res |-> Result(FALSE, e, <<>>), found |-> FALSE, sb |-> sb, writes |-> <<>>,
     threw |-> TRUE]

Catch_Rethrow(x) == x

\* try { ... } catch (error) { return { success: false, error: String(error) } }
Catch(x) ==
    IF x.threw THEN Outcome(Result(FALSE, x.res.error, <<>>), FALSE, x.sb, <<>>) ELSE x

\* the in-game operations: getOrCreateObjective rethrows what the
\* scoreboard raised
D_body(o, sb, t, id, v, fault) ==
    IF fault = "throws" THEN Throw("Error: scoreboard", sb)
    ELSE CASE o = "set" ->
                Outcome(D_setJsonDirect(t, id, v).res, FALSE, sb,
                        <<D_setJsonDirect(t, id, v).write>>)
           [] o = "get" -> Outcome(D_getJsonDirect(sb[t], id), FALSE, sb, <<>>)
           [] o = "delete" ->
                Outcome(D_deleteJsonDirect(sb[t], id).res, FALSE,
                        [sb EXCEPT ![t] = D_deleteJsonDirect(sb[t], id).rows], <<>>)
           [] o = "exists" ->
                Outcome(Result(TRUE, "", <<>>), D_existsJsonDirect(sb[t], id), sb, <<>>)
           [] o = "list" -> Outcome(Result(TRUE, "", <<>>), FALSE, sb, <<>>)
           [] o = "clear" ->
                Outcome(Result(TRUE, "", <<>>), FALSE,
                        [sb EXCEPT ![t] = D_clearJsonDirect(@)], <<>>)

D_call(o, sb, t, id, v, fault) == Catch(D_body(o, sb, t, id, v, fault))

\* remote getJsonDirect: getOrCreateObjective answers false without a world,
\* and a list command that raises is caught
R_getJsonDirectF(sb, t, id, scoped, fault) ==
    IF fault = "noWorld" THEN Result(FALSE, "Failed to access table", <<>>)
    ELSE IF fault = "throws" THEN Catch(Throw("Error: command", sb)).res
    ELSE R_getJsonDirect(sb, t, id, scoped)

\* the remote operations
R_body(o, sb, t, id, v, scoped, fault) ==
    IF o = "exists"
    THEN Outcome(Result(TRUE, "", <<>>), R_getJsonDirectF(sb, t, id, scoped, fault).success,
                 sb, <<>>)
    ELSE IF o = "get" THEN Outcome(R_getJsonDirectF(sb, t, id, scoped, fault), FALSE, sb, <<>>)
    ELSE IF fault = "noWorld"
    THEN Outcome(Result(FALSE, "Failed to access table", <<>>), FALSE, sb, <<>>)
    ELSE IF o = "delete"
    THEN IF fault = "throws"
         THEN Outcome(Result(FALSE, "not found", <<>>), FALSE, sb, <<>>)
         ELSE Outcome(R_deleteJsonDirect(sb, t, id, scoped, "removed", "removed").res, FALSE,
                      R_deleteJsonDirect(sb, t, id, scoped, "removed", "removed").sb, <<>>)
    ELSE IF fault = "throws" THEN Throw("Error: command", sb)
    ELSE CASE o = "set" ->
                Outcome(R_setJsonDirect(t, id, v, 1, "ok"), FALSE, sb,
                        ExecutorSet(t, id, JSONstringify(v)))
           [] o = "list" -> Outcome(Result(TRUE, "", <<>>), FALSE, sb, <<>>)
           [] o = "clear" -> Outcome(Result(TRUE, "", <<>>), FALSE, HostResetAll(sb, t), <<>>)

R_call(o, sb, t, id, v, scoped, fault) == Catch(R_body(o, sb, t, id, v, scoped, fault))

\* what the caller of a store operation gets back
Answer(o, be, t, id, x, fault) ==
    [op |-> o, be |-> be, table |-> t, id |-> id, success |-> x.res.success,
     val |-> <<>>, found |-> x.found, items |-> <<>>, error |-> x.res.error,
     fault |-> fault, threw |-> x.threw]

\* One call of a store operation, the backend failing or not.
StoreCall(o, be, t, id, fault) ==
    /\ fault \in FaultsOf(be, worlds)
    /\ o = "set" => (TotalRows + Len(pending) < MaxFaultyRows /\ Len(pending) < MaxPending)
    /\ objectives' = IF fault = "none" THEN objectives \cup {t} ELSE objectives
    /\ LET done(x) ==
               /\ board' = x.sb
               /\ pending' = pending \o x.writes
               /\ lastOp' = Answer(o, be, t, id, x, fault)
       IN done(IF be = "direct" THEN D_call(o, board, t, id, Generic(<<"a">>), fault)
               ELSE R_call(o, board, t, id, Generic(<<"a">>), hostScoped, fault))
    /\ applied' = [applied EXCEPT ![t] = Resync(@, board[t], board'[t])]
    /\ UNCHANGED <<hostScoped, codecVars, hashVars, retryVars, handlerVars, parserVars, objVars, regVars, overlapVars, flagVars, cycleVars, bridgeVars, timingVars>>

\* What a host command did and what it reports: successCount is a number
\* or undefined (-1); statusMessage is error-free ("ok"), absent (""), or
\* an error text in Japanese or in English.
CmdResult(done, successCount, msg) ==
    [done |-> done, successCount |-> successCount, msg |-> msg]
CmdResults == {CmdResult(TRUE, 1, "ok"), CmdResult(TRUE, -1, "ok"),
               CmdResult(FALSE, 0, "errorJa"), CmdResult(FALSE, 0, "errorEn"),
               CmdResult(FALSE, -1, "errorJa")}

\* statusMessage?.includes('エラー')
IncludesJaError(msg) == msg = "errorJa"

\* removeResult.successCount !== 0 || !removeResult.statusMessage?.includes('エラー')
R_clearStepOk(r) == r.successCount # 0 \/ ~IncludesJaError(r.msg)

\* remote clearJsonDirect with a world: the objective is opened, removed
\* and added again; rm and cr are what the two commands did and reported
R_clearJsonDirect(sb, objs, t, rm, cr) ==
    LET removed == [sb |-> IF rm.done THEN HostResetAll(sb, t) ELSE sb,
                    objs |-> IF rm.done THEN objs \ {t} ELSE objs \cup {t}]
        created == [sb |-> removed.sb,
                    objs |-> IF cr.done THEN removed.objs \cup {t} ELSE removed.objs]
    IN IF ~R_clearStepOk(rm) /\ rm.successCount = 0
       THEN [res |-> Result(FALSE, "Failed to remove objective", <<>>),
             sb |-> removed.sb, objs |-> removed.objs]
       ELSE IF ~R_clearStepOk(cr) /\ cr.successCount = 0
       THEN [res |-> Result(FALSE, "Failed to recreate objective", <<>>),
             sb |-> created.sb, objs |-> created.objs]
       ELSE [res |-> Result(TRUE, "", <<>>), sb |-> created.sb, objs |-> created.objs]

\* in-game clearJsonDirect: removeParticipant raises for the participants
\* at the positions in stuck, which is logged and passed over
D_clearParticipants(rows, stuck) ==
    [res |-> Result(TRUE, "", <<>>),
     rows |-> SelectSeq(rows, LAMBDA r : \E i \in stuck : rows[i] = r)]

\* One call of clear on a host whose commands or participants may fail.
ClearCall(be, t) ==
    /\ LET done(x) ==
               /\ board' = [board EXCEPT ![t] = x.sb[t]]
               /\ objectives' = x.objs
               /\ lastOp' = Answer("clear", be, t, 0,
                                   Outcome(x.res, FALSE, x.sb, <<>>), "host")
       IN IF be = "direct"
          THEN \E stuck \in SUBSET DOMAIN board[t] :
                  LET cleared(c) == done([res |-> c.res, objs |-> objectives \cup {t},
                                          sb |-> [board EXCEPT ![t] = c.rows]])
                  IN cleared(D_clearParticipants(board[t], stuck))
          ELSE /\ worlds
               /\ \E rm, cr \in CmdResults :
                     /\ cr.done => rm.done
                     /\ done(R_clearJsonDirect(board, objectives, t, rm, cr))
    /\ applied' = [applied EXCEPT ![t] = Resync(@, board[t], board'[t])]
    /\ UNCHANGED <<pending, hostScoped, codecVars, hashVars, retryVars, handlerVars, parserVars, objVars, regVars, overlapVars, flagVars, cycleVars, bridgeVars, timingVars>>

\* a payload whose JSON text is one character longer than maxJsonLength
LongValue == Generic([i \in 1..(maxJsonLength - 3) |-> "a"])

\* remote setJsonDirect with a world: the length check, then the command
R_setJsonChecked(t, id, jsonData, h) ==
    IF Len(JSONstringify(jsonData)) > maxJsonLength
    THEN Outcome(Result(FALSE, "JSON too long", <<>>), FALSE, board, <<>>)
    ELSE Outcome(R_setJsonDirect(t, id, jsonData, h.successCount, h.msg), FALSE, board,
                 IF h.successCount # 0 THEN ExecutorSet(t, id, JSONstringify(jsonData))
                 ELSE <<>>)

\* One call of set with a payload beyond the length limit.
SetLong(be, t, id) ==
    /\ TotalRows + Len(pending) < MaxFaultyRows /\ Len(pending) < MaxPending
    /\ be = "remote" => worlds
    /\ objectives' = objectives \cup {t}
    /\ \E h \in HostResponses :
         LET done(x) ==
                 /\ pending' = pending \o x.writes
                 /\ lastOp' = Answer("set", be, t, id, x, "tooLong")
         IN done(IF be = "direct" THEN D_call("set", board, t, id, LongValue, "none")
                 ELSE Catch(R_setJsonChecked(t, id, LongValue, h)))
    /\ UNCHANGED <<board, hostScoped, applied, codecVars, hashVars, retryVars, handlerVars, parserVars, objVars, regVars, overlapVars, flagVars, cycleVars, bridgeVars, timingVars>>

\* what the host may report for the set command: successCount undefined
\* (-1), 0 or positive; statusMessage absent, error-free or an error text
SuccessCounts == {-1, 0, 1}
StatusMessages == {"", "ok", "errorJa", "errorEn"}
ErrorMessages == {"errorJa", "errorEn"}

\* statusMessage && !includes('エラー') && !includes('error'), as R_isSuccess reads it
StatusOf(msg) == IF msg \in ErrorMessages THEN "err" ELSE msg

\* One call of the remote set with a world, the host reporting successCount
\* and msg; the executor stores the record unless the host reports an error.
SetReported(t, id, successCount, msg) ==
    /\ TotalRows + Len(pending) < MaxFaultyRows /\ Len(pending) < MaxPending
    /\ worlds
    /\ objectives' = objectives \cup {t}
    /\ LET v == Generic(<<"a">>)
           done(r) ==
               /\ pending' = IF successCount # 0 /\ msg \notin ErrorMessages
                             THEN pending \o ExecutorSet(t, id, JSONstringify(v))
                             ELSE pending
               /\ lastOp' = Answer("set", "remote", t, id, Outcome(r, FALSE, board, <<>>),
                                   "report")
                             @@ [successCount |-> successCount, msg |-> msg]
       IN done(R_setJsonDirect(t, id, v, successCount, StatusOf(msg)))
    /\ UNCHANGED <<board, hostScoped, applied, codecVars, hashVars, retryVars, handlerVars, parserVars, objVars, regVars, overlapVars, flagVars, cycleVars, bridgeVars, timingVars>>

\* system.run runs the oldest deferred write and objective.setScore raises:
\* nothing is written and nothing catches the exception.
RunWriteThrows ==
    /\ pending # <<>>
    /\ pending' = Tail(pending)
    /\ lastOp' = Answer("run", "", Head(pending).table, Head(pending).score,
                        Throw("Error: setScore", board), "throws")
    /\ UNCHANGED <<board, objectives, hostScoped, applied, codecVars, hashVars, retryVars, handlerVars, parserVars, objVars, regVars, overlapVars, flagVars, cycleVars, bridgeVars, timingVars>>

FaultyInit == ListingInit /\ TotalRows <= MaxFaultyRows

FaultyNext ==
    \/ \E o \in StoreOps, be \in Backends, t \in Tables, id \in Ids, fault \in Faults :
          StoreCall(o, be, t, id, fault)
    \/ \E be \in Backends, t \in Tables : ClearCall(be, t)
    \/ \E be \in Backends, t \in Tables, id \in Ids : SetLong(be, t, id)
    \/ \E t \in Tables, id \in Ids, successCount \in SuccessCounts, msg \in StatusMessages :
          SetReported(t, id, successCount, msg)
    \/ RunDeferred
    \/ RunWriteThrows
    \/ WorldAdd
    \/ WorldRemove

SpecFaulty == FaultyInit /\ [][FaultyNext]_vars

\* ----------------------------------------------------- bridge properties
BackendCalls(id) ==
    LET S == {c \in BagToSet(calls) : c.side = "b" /\ c.id = id}
        RECURSIVE Sum(_)
        Sum(T) == IF T = {} THEN 0
                  ELSE LET c == CHOOSE x \in T : TRUE IN CopiesIn(c, calls) + Sum(T \ {c})
    IN Sum(S)

Handled(side, m) == \E c \in BagToSet(calls) :
                        c.side = side /\ c.id = m.id /\ c.timestamp = m.timestamp

InTable(t, m) ==
    \E i \in DOMAIN board[t] :
        /\ JSONparse(board[t][i].name).ok
        /\ JSONparse(board[t][i].name).val.id = m.id
        /\ JSONparse(board[t][i].name).val.timestamp = m.timestamp

TableFor(to) == IF to = "b" THEN INBOX_TABLE ELSE OUTBOX_TABLE

C2_NotRemovedBeforeHandled ==
    [][\A m \in sentOk :
          (/\ \A m2 \in sentOk : m2.id = m.id => m2 = m
           /\ InTable(TableFor(m.to), m)
           /\ ~Handled(m.to, m))
          => (InTable(TableFor(m.to), m)' \/ Handled(m.to, m)')]_vars

\* C3: the handlers of the backend get the messages of a batch in ascending
\* timestamp order, whatever the order of the store's listing.
C3_BatchInTimestampOrder ==
    /\ \A i, j \in DOMAIN bQueue : i < j => bQueue[i].timestamp <= bQueue[j].timestamp
    /\ bRunning # NoItem =>
           \A i \in DOMAIN bQueue : bRunning.timestamp <= bQueue[i].timestamp

\* the handler runs for the earlier message while the later one, which the
\* store lists first, waits in the queue
C3_Witness ==
    /\ bRunning # NoItem /\ bQueue # <<>>
    /\ bRunning.timestamp < Head(bQueue).timestamp
    /\ \E i, j \in DOMAIN board[INBOX_TABLE] :
          /\ i < j
          /\ board[INBOX_TABLE][i].score = Head(bQueue).key
          /\ board[INBOX_TABLE][j].score = bRunning.key

\* C4: in the end-to-end scenario the handler is given the message once and
\* one reply r1 is sent, at the latest when the fifth poll cycle begins.
C4_EndToEnd ==
    LET replies == {m \in sentOk : m.to = "c" /\ m.id = "r1"}
    IN /\ BackendCalls("m1") <= 1
       /\ Cardinality(replies) <= 1
       /\ polls >= 5 => (BackendCalls("m1") = 1 /\ Cardinality(replies) = 1)

\* the fifth poll cycle has begun, the handler ran once and r1 was sent
C4_Witness ==
    /\ polls = 5
    /\ BackendCalls("m1") = 1
    /\ \E m \in sentOk : m.to = "c" /\ m.id = "r1"

\* C5: while a handler runs for a message, its id is in the processed-id set
\* of the bridge that runs it.
C5_MarkedBeforeHandlers ==
    /\ bRunning # NoItem => bRunning.id \in Range(bProcessed)
    /\ cRunning # NoItem => cRunning.id \in cProcessed

\* ------------------------------------------------------ store properties
SameItems(x, y) ==
    /\ Len(x) = Len(y)
    /\ {x[i] : i \in DOMAIN x} = {y[i] : i \in DOMAIN y}

HasCorruptRow(rows) == \E i \in DOMAIN rows : ~JSONparse(rows[i].name).ok

\* the two sets of the overwrite scenario were applied to (table, id) of the
\* last call, on an id that was free before the first
Overwritten == Len(applied[lastOp.table][lastOp.id]) = 2

\* C6: an exists issued next after a delete that returned success, on the
\* same backend, table and id, answers exists = false.
C6_DeleteThenExists ==
    [][(/\ lastOp.op = "delete" /\ lastOp.success
        /\ lastOp'.op = "exists"
        /\ lastOp'.be = lastOp.be
        /\ lastOp'.table = lastOp.table
        /\ lastOp'.id = lastOp.id) => ~lastOp'.found]_vars

\* C7: every record with another score that list returned before a delete is
\* still returned by list after it.
C7_DeleteFrame ==
    [][lastOp'.op = "delete" =>
         LET before == StoreList(lastOp'.be, board, lastOp'.table).items
             after == StoreList(lastOp'.be, board', lastOp'.table).items
         IN \A i \in DOMAIN before :
                before[i].id # lastOp'.id => \E j \in DOMAIN after : after[j] = before[i]]_vars

C10_ListSkipsCorrupt ==
    (lastOp.op = "list" /\ HasCorruptRow(board[lastOp.table])) =>
        (lastOp.success /\ SameItems(lastOp.items, D_items(board[lastOp.table])))

\* C11: every item a remote list returns is a record of the requested table.
C11_ListOnlyOwnTable ==
    (lastOp.op = "list" /\ lastOp.be = "remote") =>
        \A i \in DOMAIN lastOp.items :
            \E j \in DOMAIN board[lastOp.table] :
                /\ board[lastOp.table][j].score = lastOp.items[i].id
                /\ DeserializeRemote(board[lastOp.table][j].name).ok
                /\ DeserializeRemote(board[lastOp.table][j].name).val = lastOp.items[i].data

\* C34: get(table, id) answers success only with the payload of a record of
\* that table whose score is id; any other answer is a failure.
C34_GetOnlyOwnRecord ==
    (lastOp.op = "get" /\ lastOp.success) =>
        \E j \in DOMAIN board[lastOp.table] :
            /\ board[lastOp.table][j].score = lastOp.id
            /\ DeserializeRemote(board[lastOp.table][j].name).ok
            /\ DeserializeRemote(board[lastOp.table][j].name).val = lastOp.val

\* C35: isProcessingData and isPerformingCleanup are never both true; at
\* most one call of pollForData and one call of performAutomaticCleanup
\* are past their guard and not yet returned; and a flag is true exactly
\* while such a call is, so it is false again once the call has returned,
\* however it returned.
C35_BusyFlags ==
    /\ ~(bBusy /\ bCleaning)
    /\ bPolling <= 1 /\ bSweeping <= 1
    /\ (bBusy <=> bPolling = 1)
    /\ (bCleaning <=> bSweeping = 1)

\* a poll cycle that handled a message has returned, and a sweep is now
\* under way while a new row waits in the INBOX
C35_Witness ==
    /\ bCleaning /\ bSweeping = 1 /\ ~bBusy /\ bPolling = 0
    /\ bProcessed # <<>>
    /\ board[INBOX_TABLE] # <<>>

\* C36: a row with a valid id that was not processed before is removed by
\* the poll cycle only after a handler was invoked with its message; polled
\* while no handler is registered, it stays in the INBOX and its id is not
\* added to lastProcessedIds.
C36_RemovedOnlyAfterHandler ==
    [][LFinishItem =>
          \/ \E i \in DOMAIN bHandled' : bHandled'[i].id = bRunning.id
          \/ /\ \E j \in DOMAIN board'[INBOX_TABLE] :
                    board'[INBOX_TABLE][j].score = bRunning.key
             /\ bRunning.id \notin Range(bProcessed')]_vars

\* C37: the client that polls without a busy flag passes a message to its
\* handlers at most once, also when a tick of the polling timer lists the
\* OUTBOX while an earlier call of pollForData awaits a handler.
C37_OverlapAtMostOnce ==
    \A c \in BagToSet(calls) : c.side = "c" => CopiesIn(c, calls) <= 1

\* C38: no row stays in the INBOX forever while the backend listens, a
\* world is connected and deletes succeed, whether its payload is a message
\* with a valid id, a message with an invalid id or no JSON text at all.
InboxNames ==
    {MsgStringify(CommunicationData(id, t, "hi")) :
        id \in {"m1"} \cup InvalidIds, t \in 1..MaxClock} \cup CorruptNames

C38_NoRowForever ==
    \A n \in InboxNames : []<>(n \notin Names(board[INBOX_TABLE]))

C13_ExistsReportsFailure ==
    lastOp.op = "exists" => (lastOp.success <=> lastOp.fault = "none")

C15_OneTimerEach ==
    [][/\ bPollTimers' <= 1 /\ bCleanupTimers' <= 1
       /\ (BStartListening /\ bListening = "on") =>
             UNCHANGED <<bListening, bPollTimers, bCleanupTimers, bCallbacks, bCleaning,
                         bProcessed, bDeletedKeys, bQueue, bBusy, bRunning, storeVars>>
      ]_vars

\* startListening was called twice without a world, then a world was added
C15_Witness ==
    bCallbacks = 2 /\ worlds /\ bListening = "on" /\ bPollTimers = 1 /\ bCleanupTimers = 1

\* C16: once stopListening has returned, no poll cycle and no cleanup sweep
\* begins until startListening is called again, whatever world-added events
\* occur.
C16_NoPollAfterStop == [][bStopped => ~(BPollTick \/ BSweepStart)]_vars

\* C17: while a poll cycle is under way no cleanup pass works on the INBOX,
\* be it the sweep of the cleanup timer or a cleanup operation the
\* application calls, and no poll cycle begins during a sweep.
C17_PollExcludesCleanup ==
    [][/\ (BSweepStart \/ BSweepFinish \/ BForceCleanupAll) => ~bBusy
       /\ BPollTick => ~bCleaning
      ]_vars

\* C18: a key that is in deletedKeys while its row is still in the INBOX
\* (every attempt to delete the row failed) stays in deletedKeys for good.
C18_KnownDeletedForGood ==
    [][\A i \in DOMAIN board[INBOX_TABLE] :
          board[INBOX_TABLE][i].score \in Range(bDeletedKeys) =>
              board[INBOX_TABLE][i].score \in Range(bDeletedKeys')]_vars

\* C19: an INBOX row whose id is invalid is never given to a handler and its
\* id never enters lastProcessedIds; the poll cycle that takes it from the
\* queue deletes the row by its own key.
C19_InvalidRowsDeleted ==
    [][/\ \A c \in BagToSet(calls') : c.side = "b" => c.id \notin InvalidIds
       /\ \A i \in DOMAIN bProcessed' : bProcessed'[i] \notin InvalidIds
       /\ (BBeginItem /\ Head(bQueue).id \in InvalidIds) =>
             /\ Head(bQueue).key \in Range(bDeletedKeys')
             /\ worlds => \A i \in DOMAIN board'[INBOX_TABLE] :
                              board'[INBOX_TABLE][i].score # Head(bQueue).key
      ]_vars

\* a row without a valid id was deleted from the INBOX by its key
C19_Witness ==
    \E t \in 1..MaxClock :
        /\ generateDataKey("undefined", t) \in Range(bDeletedKeys)
        /\ worlds /\ pending = <<>> /\ bQueue = <<>>
        /\ \A i \in DOMAIN board[INBOX_TABLE] :
              JSONparse(board[INBOX_TABLE][i].name).val.id # "undefined"

C21_ClearLeavesEmptyTable ==
    lastOp.op = "clear" /\ lastOp.fault = "host" =>
        /\ lastOp.success =>
              /\ lastOp.table \in objectives
              /\ StoreList(lastOp.be, board, lastOp.table).items = <<>>
        /\ (lastOp.be = "remote" /\ lastOp.table \notin objectives) =>
              (~lastOp.success /\ lastOp.error = "Failed to recreate objective")

\* C22: set of a payload whose JSON text is longer than the limit returns
\* a failure and writes nothing: no text beyond the limit, and no cut text,
\* is written or waiting to be written.
C22_TooLongFails ==
    /\ (lastOp.op = "set" /\ lastOp.fault = "tooLong") => ~lastOp.success
    /\ \A i \in DOMAIN pending : Len(pending[i].name) <= maxJsonLength
    /\ \A t \in Tables : \A i \in DOMAIN board[t] : Len(board[t][i].name) <= maxJsonLength

\* C23: the remote set succeeds when the host reports an error-free
\* statusMessage, also with successCount undefined, and fails when the
\* statusMessage holds an error keyword, whatever successCount is.
C23_OutcomeFromReport ==
    (lastOp.op = "set" /\ lastOp.fault = "report") =>
        /\ lastOp.msg = "ok" => lastOp.success
        /\ lastOp.msg \in ErrorMessages => ~lastOp.success

\* C24: get, exists, list and delete on a table leave the set of existing
\* objectives as it was; only a write creates a missing table.
C24_ReadsCreateNoTable ==
    [][\A o \in {"get", "exists", "list", "delete"}, be \in Backends, t \in Tables,
         id \in Ids :
           StoreCall(o, be, t, id, "none") => objectives' = objectives]_vars

\* C25: a verified delete of a bridge issues at most maxRetries (3) store
\* delete calls and returns at last, whether its attempts succeed or fail.
C25_BoundedDelete ==
    /\ [](dCalls <= maxRetries)
    /\ (dPc # "idle") ~> (dPc = "idle")

\* a Safely delete has given up after three failed attempts
C25_Witness ==
    /\ dPc = "done" /\ dKind \in SafeKinds
    /\ dCalls = maxRetries /\ dRetry = maxRetries
    /\ dKey \in Range(bDeletedKeys)

\* C26: the key encoder returns the same number for the same name, and the
\* number r it returns satisfies 0 <= r <= 2^31 - 1.
C26_KeyIsLegalScore ==
    [][/\ EncodeAgain => hKey' = hKey
       /\ hKey' # NoKey => (0 <= hKey'.hi /\ hKey'.hi < 32768 /\ 0 <= hKey'.lo)]_vars

\* C27: a row of the INBOX with a valid id that is not in lastProcessedIds
\* and is younger than the retention threshold is still in the table when
\* the automatic cleanup sweep ends.
C27_SweepKeepsFreshRows ==
    [][BSweepFinish =>
         \A i \in DOMAIN board[INBOX_TABLE] :
            LET row == board[INBOX_TABLE][i]
                kept(data) ==
                    (/\ data.ok /\ DOMAIN data.val = DOMAIN NoData
                     /\ ValidId(data.val.id)
                     /\ data.val.id \notin Range(bProcessed)
                     /\ ~IsOld(data.val.timestamp))
                    => \E j \in DOMAIN board'[INBOX_TABLE] : board'[INBOX_TABLE][j] = row
            IN kept(JSONparse(row.name))]_vars

\* the invocations processIncomingData makes for message m when every
\* registered handler is called once, in registration order
AllHandlersOnce(m, log) ==
    /\ Len(log) = Len(dataHandlers)
    /\ \A i \in DOMAIN dataHandlers :
          /\ log[i].handler = dataHandlers[i]
          /\ log[i].id = m.id /\ log[i].timestamp = m.timestamp

Thrown(log) == \E i \in DOMAIN log : log[i].threw

\* C28: when a handler throws while message m is processed, every registered
\* handler is still invoked for m in registration order, m's row is deleted
\* from the INBOX, m's id stays in lastProcessedIds, the rest of the batch
\* stays queued and the cycle goes on with it; and no handler is ever
\* invoked twice for the same message.
C28_ThrowingHandlerIsolated ==
    /\ [][HFinishItem /\ Thrown(SubSeq(bHandled', Len(bHandled) + 1, Len(bHandled')))
            => /\ AllHandlersOnce(DataOf(bRunning),
                                  SubSeq(bHandled', Len(bHandled) + 1, Len(bHandled')))
               /\ ~\E j \in DOMAIN board'[INBOX_TABLE] :
                      board'[INBOX_TABLE][j].score = bRunning.key
               /\ bRunning.id \in Range(bProcessed')
               /\ bQueue' = bQueue /\ bBusy' = (bQueue # <<>>)
               /\ bRunning' = NoItem]_vars
    /\ [](\A i, j \in DOMAIN bHandled :
             (/\ bHandled[i].handler = bHandled[j].handler
              /\ bHandled[i].id = bHandled[j].id
              /\ bHandled[i].timestamp = bHandled[j].timestamp) => i = j)

\* the first handler threw for the first message of a batch of two: the
\* second handler was called for it, its row is gone, its id is marked and
\* the second message waits in the queue of the same cycle
C28_Witness ==
    /\ Len(bHandled) = 2
    /\ bHandled[1].threw /\ bHandled[1].handler = "reply"
    /\ bHandled[2].handler = "quiet" /\ bHandled[2].id = bHandled[1].id
    /\ bHandled[1].id \in Range(bProcessed)
    /\ Len(bQueue) = 1 /\ bQueue[1].id # bHandled[1].id
    /\ bBusy /\ bRunning = NoItem
    /\ Len(board[INBOX_TABLE]) = 1 /\ board[INBOX_TABLE][1].score = bQueue[1].key

\* a row processIncomingData has to hand to the handlers: its id is valid
\* and not in lastProcessedIds, its key is not in deletedKeys
Eligible(turn) ==
    /\ turn.item.id \in MsgIds
    /\ turn.item.id \notin turn.processed
    /\ turn.item.key \notin turn.deleted

\* C29: the items of a poll cycle's batch get their turn one after the other
\* whatever became of the items before them: every item that is valid, not
\* processed and not known-deleted when its turn comes is handed to the
\* handlers, and when the cycle is over every item of the batch had its turn.
C29_CycleNeverAborted ==
    /\ Len(bTurns) <= Len(bBatch)
    /\ bQueue = SubSeq(bBatch, Len(bTurns) + 1, Len(bBatch))
    /\ \A i \in DOMAIN bTurns :
          /\ bTurns[i].item = bBatch[i]
          /\ Eligible(bTurns[i]) => bTurns[i].handed
    /\ ~bBusy => Len(bTurns) = Len(bBatch)

\* a cycle whose first row had no valid id and was still in the table after
\* every delete attempt, and whose second row went to the handlers
C29_Witness ==
    /\ Len(bBatch) = 2 /\ Len(bTurns) = 2
    /\ bTurns[1].item.id \in InvalidIds
    /\ ~bTurns[1].handed /\ bTurns[1].rowLeft
    /\ Eligible(bTurns[2]) /\ bTurns[2].handed

\* the index of the last header line above line i, 0 when there is none
LastHeader(lines, i) ==
    LET above == {j \in 1..(i - 1) : lines[j].kind = "header"}
    IN IF above = {} THEN 0 ELSE CHOOSE j \in above : \A k \in above : k <= j

\* the participant line i of the output speaks of: for a detail line the
\* one named by the last header above it, none when there is no header
ParticipantOf(lines, i) ==
    IF lines[i].kind = "detail"
    THEN (IF LastHeader(lines, i) = 0 THEN <<>> ELSE lines[LastHeader(lines, i)].p)
    ELSE IF lines[i].kind = "legacy" THEN lines[i].p
    ELSE <<>>

\* whether line i reports a score of the table
ScoreLine(lines, i, tableName) ==
    \/ lines[i].kind = "detail" /\ lines[i].table = tableName
    \/ lines[i].kind = "legacy"

\* the records of the table, line by line from line i on
RECURSIVE RecordsFrom(_, _, _)
RecordsFrom(lines, i, tableName) ==
    IF i > Len(lines) THEN <<>>
    ELSE LET record(n, score) ==
                 IF n # <<>> /\ n[1] = "{" /\ DeserializeRemote(n).ok
                 THEN <<[id |-> score, data |-> DeserializeRemote(n).val]>>
                 ELSE <<>>
         IN (IF ScoreLine(lines, i, tableName)
             THEN record(ParticipantOf(lines, i), lines[i].score)
             ELSE <<>>)
            \o RecordsFrom(lines, i + 1, tableName)

\* C30: the records the remote store reads from the output of a list command
\* are those of the detail lines of the table, each with the participant
\* named by the last header line above it, in line order; a detail line above
\* which there is no header line gives no record.  (A legacy line carries
\* its own participant.)  getJsonDirect finds a record only on such a line.
C30_DetailFollowsLastHeader ==
    /\ pParsed.op = "list" => pRecords = RecordsFrom(pLines, 1, INBOX_TABLE)
    /\ pParsed.op = "get" /\ pRecords # <<>> =>
          \E i \in DOMAIN pLines :
             /\ ScoreLine(pLines, i, INBOX_TABLE)
             /\ pLines[i].score = pParsed.id
             /\ ParticipantOf(pLines, i) # <<>>
             /\ DeserializeRemote(ParticipantOf(pLines, i)).ok
             /\ pRecords[1].data = DeserializeRemote(ParticipantOf(pLines, i)).val

\* a detail line before any header, then one header followed by two detail
\* lines of the table: two records, both of the header's participant
C30_Witness ==
    /\ pParsed.op = "list"
    /\ Len(pLines) = 4
    /\ pLines[1] = DetailLine(INBOX_TABLE, 1)
    /\ pLines[2].kind = "header"
    /\ pLines[3].kind = "detail" /\ pLines[4].kind = "detail"
    /\ Len(pRecords) = 2
    /\ pRecords[1].data = pRecords[2].data /\ pRecords[1].id # pRecords[2].id

\* C31: the add command for table T is run exactly when no line of the
\* objectives list names T as its whole leading token; an objective whose
\* name only starts with T, or with which T only starts, does not count, and
\* an objective named exactly T is never created again.
C31_CreateIffNotListed ==
    oCommands # <<>> =>
        (("add" \in Range(oCommands))
         <=> ~\E i \in DOMAIN oLines : oLines[i] = ObjectiveLine(oTable))

\* C32: set removes no participant.  When the write of set(table, id, P2)
\* is applied, every participant of the table other than P2 is still there
\* with its score (so is a participant P1 that held the score id), P2 is a
\* participant with score id, nothing else was added, and the other table is
\* as it was; the call of set itself changes no table.
C32_SetKeepsParticipants ==
    [][/\ (\E be \in Backends, t \in Tables, id \in Ids, v \in StoreValues :
              Set(be, t, id, v)) => board' = board
       /\ RunDeferred =>
            LET w == Head(pending)
                kept(old, new) ==
                    /\ \A i \in DOMAIN old :
                          old[i].name # w.name => \E j \in DOMAIN new : new[j] = old[i]
                    /\ \A j \in DOMAIN new :
                          new[j].name # w.name => \E i \in DOMAIN old : old[i] = new[j]
                    /\ \E j \in DOMAIN new : new[j] = Row(w.name, w.score)
            IN /\ kept(board[w.table], board'[w.table])
               /\ \A t \in Tables \ {w.table} : board'[t] = board[t]]_vars

\* the write of a set was applied to a table that held another participant
\* with the same score: both are there now
C32_Witness ==
    /\ lastOp.op = "run" /\ pending = <<>>
    /\ \E t \in Tables :
          /\ Len(board[t]) = 2
          /\ board[t][1].score = board[t][2].score
          /\ {board[t][1].name, board[t][2].name} = {JSONstringify(v) : v \in StoreValues}

\* C33: as in the backend, a row of the client's inbound table (the OUTBOX)
\* whose id is in the client's lastProcessedIds is deleted by the next poll
\* cycle that lists it: whenever the client can start a cycle, the cycle
\* takes every such row up (only the rows it takes up are deleted).
C33_ClientDeletesDuplicates ==
    (cUp /\ ~cBusy) =>
        \A i \in DOMAIN board[OUTBOX_TABLE] :
            LET row == board[OUTBOX_TABLE][i]
                taken(data, dataItems) ==
                    (/\ data.ok /\ DOMAIN data.val = DOMAIN NoData
                     /\ data.val.id \in cProcessed)
                    => \E k \in DOMAIN dataItems : dataItems[k].key = row.score
            IN taken(JSONparse(row.name), C_dataItems(board[OUTBOX_TABLE], cProcessed))

\* ------------------------------------------------------ codec properties
\* C9: the round trip through the remote codec returns the value serialized.
C9_RoundTrip == cpc = "done" => (cres.ok /\ cres.val = cv)

\* C40: read-your-writes in the direct store. When set(table, id, payload)
\* has just returned success and the same caller's next call is
\* get(table, id), that get returns success with the payload.
C40_ReadYourWrites ==
    [][(/\ lastOp.op = "set" /\ lastOp.be = "direct" /\ lastOp.success
        /\ lastOp.id \in Ids
        /\ Get("direct", lastOp.table, lastOp.id))
            => (lastOp'.success /\ lastOp'.val = lastOp.val)]_vars

====
